---------------------------- MODULE Spec2Model ----------------------------
(***************************************************************************)
(* Model of the content-extraction and PDF-rendering pipeline of           *)
(* connector-rss-enhancer (src/src/utils/html_processor.py).               *)
(*                                                                         *)
(* Abstractions.                                                           *)
(*  - A text is the triple (leading whitespace, core, trailing whitespace) *)
(*    of lengths; str.strip() removes the two whitespace runs, len() is    *)
(*    the sum.  None is a text with null = TRUE.                           *)
(*  - The network, the downloader, the readability parser and the          *)
(*    rasterizer are the environment: each technique / step draws its      *)
(*    outcome from the set of outcomes the code distinguishes.             *)
(*  - A temporary path is a number; tempfile never hands out a path that   *)
(*    exists.  os.unlink of a file this process created succeeds.          *)
(***************************************************************************)
EXTENDS Integers, Sequences, FiniteSets, TLC

(***************************************************************************)
(* Program constants and bounds                                            *)
(***************************************************************************)
MIN_TEXT_LENGTH == 100

\* OpenCTIApi.__init__: self.max_retries
MAX_RETRIES == 3

\* longest run of leading / trailing whitespace of a parsed text
MaxPad == 1
\* number of top-level calls (extract_article or convert_html_to_pdf)
MaxCalls == 2
\* largest number of </head> occurrences in a prepared document
MaxHeads == 2

(***************************************************************************)
(* Texts                                                                   *)
(***************************************************************************)
NoneText == [null |-> TRUE, lead |-> 0, core |-> 0, trail |-> 0]

Str(l, c, t) == [null |-> FALSE, lead |-> l, core |-> c, trail |-> t]

\* the texts the parser may hand back (article.text is always a str)
TextCores == {0, MIN_TEXT_LENGTH - 1, MIN_TEXT_LENGTH, MIN_TEXT_LENGTH + 1}

ParsedTexts == {Str(l, c, t) : l \in 0..MaxPad, c \in TextCores, t \in {0}}
                 \cup {Str(0, c, t) : c \in TextCores, t \in 1..MaxPad}

\* len(s)
Len_(s) == s.lead + s.core + s.trail

\* s.strip()
Strip(s) == [s EXCEPT !.lead = 0, !.trail = 0]

\* Python truthiness of an optional string
Truthy(s) == ~s.null /\ Len_(s) > 0

(***************************************************************************)
(* Extraction results                                                      *)
(***************************************************************************)
\* exc tells how the call that produced the value ended: "none" (a plain
\* return), "caught" (an exception was raised and handled inside the
\* technique), "escaped" (an exception left the technique)
NoneResult ==
    [none |-> TRUE, error |-> "", text |-> NoneText, full |-> FALSE,
     extraction_method |-> "", exc |-> "none"]

\* {"error": msg, "text": text}
ErrorResult(msg, text) ==
    [none |-> FALSE, error |-> msg, text |-> text, full |-> FALSE,
     extraction_method |-> "", exc |-> "none"]

\* except Exception as e: return {"error": str(e), "text": None}
CaughtResult(msg) ==
    [none |-> FALSE, error |-> msg, text |-> NoneText, full |-> FALSE,
     extraction_method |-> "", exc |-> "caught"]

\* no value: the exception propagates to the caller of the technique
EscapedResult ==
    [none |-> TRUE, error |-> "", text |-> NoneText, full |-> FALSE,
     extraction_method |-> "", exc |-> "escaped"]

\* _build_article_result: the full dictionary, "error": None
BuildArticleResult(text) ==
    [none |-> FALSE, error |-> "None", text |-> text, full |-> TRUE,
     extraction_method |-> "", exc |-> "none"]

\* _is_valid_result
IsValidResultGeq(result) ==
    /\ ~result.none
    /\ Truthy(result.text)
    /\ Len_(Strip(result.text)) >= MIN_TEXT_LENGTH

IsValidResult(result) ==
    /\ ~result.none
    /\ Truthy(result.text)
    /\ Len_(Strip(result.text)) > MIN_TEXT_LENGTH

(***************************************************************************)
(* Temporary files                                                         *)
(***************************************************************************)
NoPath == 0

Paths == 1..(2 * MaxCalls + 1)

EmptyFile == [kind |-> "empty"]

\* tempfile.NamedTemporaryFile(delete=False): a path that does not exist
FreshPath(fs) == CHOOSE p \in Paths \ DOMAIN fs : \A q \in Paths \ DOMAIN fs : p <= q

CreateFile(fs, p, content) ==
    [q \in DOMAIN fs \cup {p} |-> IF q = p THEN content ELSE fs[q]]

\* _cleanup_temp_file: unlink when the path is set and exists
CleanupTempFile(fs, p) ==
    IF p # NoPath /\ p \in DOMAIN fs
    THEN [q \in DOMAIN fs \ {p} |-> fs[q]]
    ELSE fs

\* _cleanup_temp_files: the same for each path of the list, in order
CleanupTempFiles(fs, p1, p2) == CleanupTempFile(CleanupTempFile(fs, p1), p2)

(***************************************************************************)
(* The three techniques.  Each is a function of what its environment does. *)
(***************************************************************************)
Ok(t) == [step |-> "ok", text |-> t]

Bad(step) == [step |-> step, text |-> NoneText]

StandardEnvs ==
    {Bad(s) : s \in {"download_raises", "html_too_small", "parse_raises"}}
      \cup {Ok(t) : t \in ParsedTexts}

\* _extract_standard: every exception is caught inside the technique
ExtractStandard(e) ==
    IF e.step = "download_raises" THEN CaughtResult("exception")
    ELSE IF e.step = "html_too_small"
         THEN ErrorResult("Failed to download HTML content", NoneText)
    ELSE IF e.step = "parse_raises" THEN CaughtResult("exception")
    ELSE IF ~Truthy(e.text) \/ Len_(Strip(e.text)) < MIN_TEXT_LENGTH
         THEN ErrorResult("Insufficient text content", e.text)
    ELSE BuildArticleResult(e.text)

DirectEnvs ==
    {Bad(s) : s \in {"mktemp_raises", "wget_raises", "wget_nonzero",
                     "getsize_raises", "file_too_small", "read_raises",
                     "parse_raises"}}
      \cup {Ok(t) : t \in ParsedTexts}

\* _extract_direct, the result
ExtractDirectUncaughtRead(e) ==
    IF e.step \in {"mktemp_raises", "wget_raises", "getsize_raises"}
    THEN CaughtResult("exception")
    ELSE IF e.step = "read_raises" THEN EscapedResult
    ELSE IF e.step = "wget_nonzero" THEN ErrorResult("wget failed", NoneText)
    ELSE IF e.step = "file_too_small" THEN ErrorResult("HTML file too small", NoneText)
    ELSE IF e.step = "parse_raises" THEN CaughtResult("Parse error")
    ELSE IF Truthy(e.text) /\ Len_(Strip(e.text)) > MIN_TEXT_LENGTH
         THEN BuildArticleResult(e.text)
    ELSE ErrorResult("Insufficient text content", e.text)

ExtractDirect(e) ==
    IF e.step \in {"mktemp_raises", "wget_raises", "getsize_raises", "read_raises"}
    THEN CaughtResult("exception")
    ELSE IF e.step = "wget_nonzero" THEN ErrorResult("wget failed", NoneText)
    ELSE IF e.step = "file_too_small" THEN ErrorResult("HTML file too small", NoneText)
    ELSE IF e.step = "parse_raises" THEN CaughtResult("Parse error")
    ELSE IF Truthy(e.text) /\ Len_(Strip(e.text)) > MIN_TEXT_LENGTH
         THEN BuildArticleResult(e.text)
    ELSE ErrorResult("Insufficient text content", e.text)

\* the file _extract_direct hands to wget -O
DirectTempFile == [kind |-> "direct"]

\* _extract_direct, the temporary file: created unless mkstemp raises, and
\* removed by _cleanup_temp_file on each of the paths out of the function
ExtractDirectFilesKeptOnParseError(e, fs) ==
    IF e.step = "mktemp_raises"
    THEN CleanupTempFile(fs, NoPath)
    ELSE LET p == FreshPath(fs)
             made == CreateFile(fs, p, DirectTempFile)
         IN  IF e.step = "parse_raises" THEN made
             ELSE CleanupTempFile(made, p)

ExtractDirectFiles(e, fs) ==
    IF e.step = "mktemp_raises"
    THEN CleanupTempFile(fs, NoPath)                       \* line 343, None
    ELSE LET p == FreshPath(fs)
             made == CreateFile(fs, p, DirectTempFile)
         IN  IF e.step = "wget_nonzero"
             THEN CleanupTempFile(made, p)                 \* line 286
             ELSE IF e.step = "file_too_small"
             THEN CleanupTempFile(made, p)                 \* line 295
             ELSE IF e.step = "parse_raises"
             THEN CleanupTempFile(made, p)                 \* line 313
             ELSE IF e.step \in {"wget_raises", "getsize_raises", "read_raises"}
             THEN CleanupTempFile(made, p)                 \* line 343
             ELSE CleanupTempFile(made, p)                 \* line 317

AdvancedEnvs ==
    {[step |-> s, text |-> NoneText, homepage |-> h] :
        s \in {"urlparse_raises", "target_raises", "status_not_200", "parse_raises"},
        h \in {"ok", "raises"}}
      \cup {[step |-> "ok", text |-> t, homepage |-> h] :
              t \in ParsedTexts, h \in {"ok", "raises"}}

\* _extract_advanced: a homepage error is swallowed, the rest as above
ExtractAdvanced(e) ==
    IF e.step \in {"urlparse_raises", "target_raises"}
    THEN CaughtResult("exception")
    ELSE IF e.step = "status_not_200"
         THEN ErrorResult("Failed with status code", NoneText)
    ELSE IF e.step = "parse_raises"
         THEN CaughtResult("Failed to parse article")
    ELSE IF Truthy(e.text) /\ Len_(Strip(e.text)) > MIN_TEXT_LENGTH
         THEN BuildArticleResult(e.text)
    ELSE ErrorResult("No meaningful text in the article",
                     IF Truthy(e.text) THEN e.text ELSE NoneText)

\* _extract_advanced, what it does on the way: URL parsing and session
\* setup, the homepage request, the target request, the parse
AdvancedTraceAbortsOnHomepageError(e) ==
    IF e.step = "urlparse_raises" THEN <<"setup">>
    ELSE IF e.homepage = "raises" THEN <<"setup", "homepage">>
    ELSE IF e.step \in {"target_raises", "status_not_200"}
         THEN <<"setup", "homepage", "target">>
    ELSE <<"setup", "homepage", "target", "parse">>

AdvancedTrace(e) ==
    IF e.step = "urlparse_raises" THEN <<"setup">>
    ELSE IF e.step \in {"target_raises", "status_not_200"}
         THEN <<"setup", "homepage", "target">>
    ELSE <<"setup", "homepage", "target", "parse">>

\* extraction_methods, in the order of the list
extraction_methods_swapped == <<"standard", "advanced", "direct_wget">>

extraction_methods_short == <<"standard", "direct_wget">>

extraction_methods == <<"standard", "direct_wget", "advanced">>


(***************************************************************************)
(* Pages: what the classifier and the strategy choice read of (html, url). *)
(***************************************************************************)
MAX_HTML_SIZE == 500000
MIN_TEXT_RATIO_PERCENT == 5
MAX_DIVS == 100
MAX_SCRIPTS == 15
MAX_NESTED == 50

\* the eleven checks of _is_wordpress_site, in the order of the code
WpChecks == 1..11

Page(null, sigs, layoutDecl, divs, sections, articles, scripts, denied) ==
    [null |-> null, sigs |-> sigs, layoutDecl |-> layoutDecl, divs |-> divs,
     sections |-> sections, articles |-> articles, scripts |-> scripts,
     denied |-> denied]

Pages ==
    { Page(TRUE,  {},     FALSE, 0, 0, 0, 0, FALSE),                 \* html is None
      Page(FALSE, {},     FALSE, 3, 0, 1, 2, FALSE),                 \* plain page
      Page(FALSE, {1},    FALSE, 3, 0, 1, 2, FALSE),                 \* generator meta tag
      Page(FALSE, {6, 9}, TRUE,  MAX_DIVS + 1, MAX_NESTED + 1, 0, 0, FALSE),
      Page(FALSE, {},     TRUE,  MAX_DIVS + 1, MAX_NESTED + 1, 0, 0, FALSE),
      Page(FALSE, {},     FALSE, MAX_NESTED + 1, 0, 0, MAX_SCRIPTS + 1, FALSE),
      Page(FALSE, {},     FALSE, 3, 0, 1, 2, TRUE) }                 \* deny-listed domain

\* _is_wordpress_site: the first matching check returns True
IsWordpressSite(page) == \E c \in WpChecks : c \in page.sigs

\* _determine_best_strategy
DetermineBestStrategyOneFamily(page) ==
    LET has_complex_layout ==
            \/ page.layoutDecl
            \/ page.divs > MAX_DIVS
            \/ page.scripts > MAX_SCRIPTS
        nested_level ==
            Cardinality({t \in {"div", "section", "article"} :
                            (CASE t = "div" -> page.divs
                               [] t = "section" -> page.sections
                               [] OTHER -> page.articles) > MAX_NESTED})
    IN  IF IsWordpressSite(page) THEN "extract"
        ELSE IF (has_complex_layout /\ nested_level >= 1) \/ page.denied
             THEN "extract"
        ELSE "minimal"

DetermineBestStrategy(page) ==
    LET has_complex_layout ==
            \/ page.layoutDecl
            \/ page.divs > MAX_DIVS
            \/ page.scripts > MAX_SCRIPTS
        nested_level ==
            Cardinality({t \in {"div", "section", "article"} :
                            (CASE t = "div" -> page.divs
                               [] t = "section" -> page.sections
                               [] OTHER -> page.articles) > MAX_NESTED})
    IN  IF IsWordpressSite(page) THEN "extract"
        ELSE IF (has_complex_layout /\ nested_level >= 2) \/ page.denied
             THEN "extract"
        ELSE "minimal"

(***************************************************************************)
(* Documents handed from one stage of convert_html_to_pdf to the next      *)
(***************************************************************************)
NoDoc ==
    [kind |-> "none", alnum |-> 0, len |-> 0, container |-> FALSE,
     heads |-> 0, css |-> 0, rebuilt |-> FALSE, protected |-> FALSE,
     text |-> NoneText, method |-> "", images |-> FALSE]

\* what _selective_layout_cleaning + _prepare_html_for_better_layout can
\* leave of a page: the measures the quality gate and the injection read
Measure(alnum, len, container, heads) ==
    [alnum |-> alnum, len |-> len, container |-> container, heads |-> heads]

MinimalOutputs ==
    {Measure(50, 100, TRUE, h) : h \in 0..MaxHeads}
      \cup { Measure(4, 100, TRUE, 1),                       \* density below 5%
             Measure(5, 100, TRUE, 1),                       \* density exactly 5%
             Measure(50, 100, FALSE, 1),                     \* no content container
             Measure(MAX_HTML_SIZE, MAX_HTML_SIZE + 1, TRUE, 1),
             Measure(MAX_HTML_SIZE, MAX_HTML_SIZE, TRUE, 1),
             Measure(0, 0, FALSE, 0) }                       \* empty document

\* the minimal transform applied to html_content
MinimalTransformOfRawPage(m, html, include_images) ==
    [kind |-> "minimal", alnum |-> m.alnum, len |-> m.len,
     container |-> m.container, heads |-> m.heads, css |-> 0,
     rebuilt |-> FALSE, protected |-> FALSE,
     text |-> NoneText, method |-> "", images |-> include_images]

MinimalTransform(m, html, include_images) ==
    [kind |-> "minimal", alnum |-> m.alnum, len |-> m.len,
     container |-> m.container, heads |-> m.heads, css |-> 0,
     rebuilt |-> html.rebuilt, protected |-> html.protected,
     text |-> NoneText, method |-> "", images |-> include_images]

\* _build_clean_article_html: built from the article alone
BuildCleanArticleHtml(article, include_images) ==
    [kind |-> "extract", alnum |-> 0, len |-> 0, container |-> TRUE,
     heads |-> 1, css |-> 0, rebuilt |-> FALSE, protected |-> FALSE,
     text |-> article.text, method |-> article.extraction_method,
     images |-> include_images]

\* _is_valid_processed_html
IsValidProcessedHtmlNoDensity(d) ==
    /\ d.container
    /\ ~(d.len > MAX_HTML_SIZE)

IsValidProcessedHtmlStrictBounds(d) ==
    LET total == IF d.len > 1 THEN d.len ELSE 1
    IN  /\ ~(d.alnum * 100 <= MIN_TEXT_RATIO_PERCENT * total)
        /\ d.container
        /\ ~(d.len >= MAX_HTML_SIZE)

IsValidProcessedHtml(d) ==
    LET total == IF d.len > 1 THEN d.len ELSE 1
    IN  /\ ~(d.alnum * 100 < MIN_TEXT_RATIO_PERCENT * total)
        /\ d.container
        /\ ~(d.len > MAX_HTML_SIZE)

\* article_data and article_data.get("text")
Usable(article) == ~article.none /\ Truthy(article.text)

\* cleaned_html.replace('</head>', css + '</head>') when '</head>' occurs
InjectLayoutRepairCssDropped(d) == d

InjectLayoutRepairCss(d) ==
    IF d.heads > 0 THEN [d EXCEPT !.css = d.css + d.heads] ELSE d

(***************************************************************************)
(* Rasterizer                                                              *)
(***************************************************************************)
Pdf(i) == [kind |-> "pdf", id |-> i]

PartialPdf == [kind |-> "partial", id |-> 0]

NotRun == [exit |-> "not_run", wrote |-> EmptyFile, removed |-> FALSE]

\* what subprocess.run of wkhtmltopdf can do within or beyond the timeout
RasterOutcomes ==
    {[exit |-> "0", wrote |-> Pdf(i), removed |-> FALSE] : i \in 1..2}
      \cup { [exit |-> "0", wrote |-> EmptyFile, removed |-> FALSE],
             [exit |-> "0", wrote |-> EmptyFile, removed |-> TRUE],
             [exit |-> "1", wrote |-> EmptyFile, removed |-> FALSE],
             [exit |-> "1", wrote |-> PartialPdf, removed |-> FALSE],
             [exit |-> "timeout", wrote |-> EmptyFile, removed |-> FALSE],
             [exit |-> "timeout", wrote |-> PartialPdf, removed |-> FALSE],
             [exit |-> "raises", wrote |-> EmptyFile, removed |-> FALSE] }

NoneBytes == [none |-> TRUE, bytes |-> EmptyFile]

Bytes(b) == [none |-> FALSE, bytes |-> b]

Strategies == {"extract", "minimal", "auto", "other"}

(***************************************************************************)
(* State                                                                   *)
(***************************************************************************)
VARIABLES
    ncalls,              \* top-level calls made so far
    files,               \* the temporary directory: path -> content
    environ,             \* os.environ: XDG_RUNTIME_DIR, QT_LOGGING_RULES
    \* extract_article
    epc,                 \* "idle", "attempt", "validate", "returned"
    idx,                 \* position in extraction_methods
    result,              \* what the last technique returned
    invoked,             \* names of the techniques invoked in this call
    eret,                \* what extract_article returns
    \* convert_html_to_pdf
    pc,
    page,                \* html_content and url as passed in
    requested,           \* ad_removal_strategy as passed in
    include_images,
    html_content,
    ad_removal_strategy,
    article_data,        \* what extract_article returned to this call
    cleaned_html,
    temp_html_path,
    pdf_path,
    process,             \* the rasterizer's run
    ret,                 \* what convert_html_to_pdf returns
    created,             \* paths of the files this call created
    calls,               \* collaborators invoked in this call, in order
    \* one helper method of HTMLProcessor called on its own
    fn,                  \* the method under study, "none" in the pipeline
    arg,                 \* the arguments of its last call
    out,                 \* what its last call returned
    debug_mode,          \* the instance attribute debug_mode
    hist,                \* the calls made so far: arguments and result
    \* calls running at the same time in one temporary directory
    workers,             \* each concurrent call: its position and its paths
    tmpdir,              \* the paths that exist
    names_used,          \* how many names tempfile has handed out
    ops,                 \* every operation made on a path, and by which call
    \* OpenCTIApi._execute_query_with_retry
    max_retries,         \* self.max_retries
    qpc,                 \* "idle", "loop", "returned"
    retry_count,
    sent,                \* what each requests.post of this call ended with
    qret,                \* what the call returns
    \* FileOperations: calls of upload_and_link_file on one instance
    temp_files,          \* self.temp_files
    udisk,               \* the paths that exist in the temporary directory
    unames,              \* how many names tempfile has handed out
    ucalls,              \* calls made so far
    upc,                 \* "idle", "save", "upload", "finally", "returned"
    utemp_path,          \* the local temp_path
    ucreated,            \* the file this call created, NoPath if none
    uoutcome,            \* how the save and the upload of this call ended
    uret,                \* what the call returns
    \* the connector's main loop and its ReportProcessor
    process_all_reports, \* ReportProcessor.process_all_reports
    processed_reports,   \* ReportProcessor.processed_reports
    platform,            \* the reports on the platform: id -> what it holds
    labelled,            \* ids carrying the processed label on the platform
    newer,               \* reports created after the two reports followed
    cpc,                 \* "idle", "fetch", "process", "sleep", "error_sleep"
    reports,             \* the list the current cycle fetched
    ri,                  \* reports of that list already iterated over
    last,                \* what the last iteration of process_reports did
    successes            \* per id: calls of process_report that returned True

evars == <<epc, idx, result, invoked, eret>>

cvars == <<pc, page, requested, include_images, html_content,
           ad_removal_strategy, article_data, cleaned_html, temp_html_path, pdf_path,
           process, ret, created, calls>>

fvars == <<fn, arg, out, debug_mode, hist>>

tvars == <<workers, tmpdir, names_used, ops>>

qvars == <<max_retries, qpc, retry_count, sent, qret>>

uvars == <<temp_files, udisk, unames, ucalls, upc, utemp_path, ucreated,
           uoutcome, uret>>

rvars == <<process_all_reports, processed_reports, platform, labelled, newer,
           cpc, reports, ri, last, successes>>

\* the connector's other objects
nvars == <<qvars, uvars, rvars>>

\* the HTMLProcessor
hvars == <<ncalls, files, environ, evars, cvars, fvars, tvars>>

\* everything but the query being executed
nonqvars == <<hvars, uvars, rvars>>

\* everything but the FileOperations instance
nonuvars == <<hvars, qvars, rvars>>

\* everything but the main loop and the ReportProcessor
nonrvars == <<hvars, qvars, uvars>>

vars == <<ncalls, files, environ, evars, cvars, fvars, tvars, nvars>>

NoHtml == [rebuilt |-> FALSE, protected |-> FALSE]

\* no helper method is called on its own
NoArg == [null |-> TRUE]
Pending == "pending"

FnIdle ==
    /\ fn = "none"
    /\ arg = NoArg
    /\ out = Pending
    /\ debug_mode = "absent"
    /\ hist = << >>

\* no concurrent calls
TmpIdle ==
    /\ workers = << >>
    /\ tmpdir = {}
    /\ names_used = 0
    /\ ops = {}

\* no query is being executed
QueryIdle ==
    /\ max_retries = MAX_RETRIES
    /\ qpc = "idle"
    /\ retry_count = 0
    /\ sent = << >>
    /\ qret = "pending"

\* FileOperations.__init__
UploadIdle ==
    /\ temp_files = << >>
    /\ udisk = {}
    /\ unames = 0
    /\ ucalls = 0
    /\ upc = "idle"
    /\ utemp_path = 0
    /\ ucreated = 0
    /\ uoutcome = "none"
    /\ uret = "pending"

\* the reports followed through the main loop, by id
ReportIds == {1, 2}

\* no iteration of process_reports has run
NoIteration == [id |-> 0, invoked |-> FALSE, steps |-> << >>, ret |-> "none"]

\* what a report on the platform holds: "plain" has a URL, a target type
\* and a string for name and description
ReportKinds == {"plain", "no_url", "other_type", "null_description", "null_name"}

\* ReportProcessor.__init__, the main loop not started
ProcessorIdle ==
    /\ process_all_reports = TRUE
    /\ processed_reports = {}
    /\ platform = [i \in ReportIds |-> "plain"]
    /\ labelled = {}
    /\ newer = 0
    /\ cpc = "idle"
    /\ reports = << >>
    /\ ri = 0
    /\ last = NoIteration
    /\ successes = [i \in ReportIds |-> 0]

OthersIdle == QueryIdle /\ UploadIdle /\ ProcessorIdle

\* HTMLProcessor.__init__ and the first call not yet made
PipelineInit ==
    /\ ncalls = 0
    /\ files = << >>
    /\ environ = [XDG_RUNTIME_DIR |-> "unset", QT_LOGGING_RULES |-> "unset"]
    /\ epc = "idle"
    /\ idx = 1
    /\ result = NoneResult
    /\ invoked = << >>
    /\ eret = NoneResult
    /\ pc = "idle"
    /\ page \in {CHOOSE p \in Pages : p.null}
    /\ requested = "auto"
    /\ include_images = TRUE
    /\ html_content = NoHtml
    /\ ad_removal_strategy = "auto"
    /\ article_data = NoneResult
    /\ cleaned_html = NoDoc
    /\ temp_html_path = NoPath
    /\ pdf_path = NoPath
    /\ process = NotRun
    /\ ret = NoneBytes
    /\ created = {}
    /\ calls = << >>

(***************************************************************************)
(* extract_article                                                         *)
(***************************************************************************)
\* entry of extract_article: the loop starts at the head of the list
EnterExtract ==
    /\ epc' = "attempt"
    /\ idx' = 1
    /\ result' = NoneResult
    /\ invoked' = << >>
    /\ eret' = NoneResult

\* the call is over: its locals are gone
LeaveExtract ==
    /\ epc' = "idle"
    /\ idx' = 1
    /\ result' = NoneResult
    /\ invoked' = << >>
    /\ eret' = NoneResult

\* the report processor calls extract_article(url)
CallExtract ==
    /\ pc = "idle" /\ epc = "idle"
    /\ ncalls < MaxCalls
    /\ ncalls' = ncalls + 1
    /\ EnterExtract
    /\ UNCHANGED <<nvars, tvars, fvars, files, environ, cvars>>

\* result = extract_func(url), standard
AttemptStandard ==
    /\ epc = "attempt" /\ extraction_methods[idx] = "standard"
    /\ \E e \in StandardEnvs : result' = ExtractStandard(e)
    /\ invoked' = Append(invoked, "standard")
    /\ epc' = "validate"
    /\ UNCHANGED <<nvars, tvars, fvars, ncalls, files, environ, idx, eret, cvars>>

\* result = extract_func(url), direct_wget
AttemptDirect ==
    /\ epc = "attempt" /\ extraction_methods[idx] = "direct_wget"
    /\ \E e \in DirectEnvs :
          /\ result' = ExtractDirect(e)
          /\ files' = ExtractDirectFiles(e, files)
    /\ invoked' = Append(invoked, "direct_wget")
    /\ epc' = "validate"
    /\ UNCHANGED <<nvars, tvars, fvars, ncalls, environ, idx, eret, cvars>>

\* result = extract_func(url), advanced
AttemptAdvanced ==
    /\ epc = "attempt" /\ extraction_methods[idx] = "advanced"
    /\ \E e \in AdvancedEnvs : result' = ExtractAdvanced(e)
    /\ invoked' = Append(invoked, "advanced")
    /\ epc' = "validate"
    /\ UNCHANGED <<nvars, tvars, fvars, ncalls, files, environ, idx, eret, cvars>>

\* if self._is_valid_result(result): ... return result
ValidateAccept ==
    /\ epc = "validate"
    /\ result.exc # "escaped"
    /\ IsValidResult(result)
    /\ eret' = [result EXCEPT !.extraction_method = extraction_methods[idx]]
    /\ epc' = "returned"
    /\ UNCHANGED <<nvars, tvars, fvars, ncalls, files, environ, idx, result, invoked, cvars>>

\* else: next method of the list
ValidateNext ==
    /\ epc = "validate"
    /\ result.exc # "escaped"
    /\ ~IsValidResult(result)
    /\ idx < Len(extraction_methods)
    /\ idx' = idx + 1
    /\ epc' = "attempt"
    /\ UNCHANGED <<nvars, tvars, fvars, ncalls, files, environ, result, invoked, eret, cvars>>

\* the list is exhausted: return None; except Exception: return None
ValidateExhausted ==
    /\ epc = "validate"
    /\ IF result.exc = "escaped" THEN TRUE
       ELSE ~IsValidResult(result) /\ idx = Len(extraction_methods)
    /\ eret' = NoneResult
    /\ epc' = "returned"
    /\ UNCHANGED <<nvars, tvars, fvars, ncalls, files, environ, idx, result, invoked, cvars>>

\* the report processor takes the result
ExtractReturn ==
    /\ pc = "idle" /\ epc = "returned"
    /\ LeaveExtract
    /\ UNCHANGED <<nvars, tvars, fvars, ncalls, files, environ, cvars>>

(***************************************************************************)
(* convert_html_to_pdf                                                     *)
(***************************************************************************)
\* return None from inside the try: the finally clause runs next
ReturnNoneUnhandled ==
    /\ ret' = NoneBytes
    /\ pc' = "raised"

ReturnNone ==
    /\ ret' = NoneBytes
    /\ pc' = "finally"

\* the report processor calls convert_html_to_pdf(html, path, url, ...)
CallConvert ==
    /\ pc = "idle" /\ epc = "idle"
    /\ ncalls < MaxCalls
    /\ ncalls' = ncalls + 1
    /\ \E p \in Pages, s \in Strategies, i \in BOOLEAN :
          /\ page' = p
          /\ requested' = s
          /\ ad_removal_strategy' = s
          /\ include_images' = i
    /\ html_content' = NoHtml
    /\ article_data' = NoneResult
    /\ cleaned_html' = NoDoc
    /\ temp_html_path' = NoPath
    /\ pdf_path' = NoPath
    /\ process' = NotRun
    /\ ret' = NoneBytes
    /\ created' = {}
    /\ calls' = << >>
    /\ pc' = "classify"
    /\ UNCHANGED <<nvars, tvars, fvars, files, environ, evars>>

\* _is_wordpress_site(None, url): re.search raises, the outer except returns None
ClassifyRaises ==
    /\ pc = "classify"
    /\ page.null
    /\ calls' = Append(calls, "_is_wordpress_site")
    /\ ReturnNone
    /\ UNCHANGED <<nvars, tvars, fvars, article_data, ncalls, files, environ, evars, page, requested,
                   include_images, html_content, ad_removal_strategy,
                   cleaned_html, temp_html_path, pdf_path, process, created>>

\* templated blog: _process_wordpress_html rebuilds the page when it finds a
\* main-content region and returns its input otherwise; strategy is extract
ClassifyWordpressKeepsStrategy ==
    /\ pc = "classify"
    /\ ~page.null
    /\ IsWordpressSite(page)
    /\ \E found \in BOOLEAN : html_content' = [html_content EXCEPT !.rebuilt = found]
    /\ calls' = calls \o <<"_is_wordpress_site", "_process_wordpress_html">>
    /\ pc' = "resolve"
    /\ UNCHANGED <<nvars, tvars, fvars, article_data, ncalls, files, environ, evars, page, requested,
                   include_images, cleaned_html, temp_html_path, pdf_path,
                   process, ret, created, ad_removal_strategy>>

ClassifyWordpress ==
    /\ pc = "classify"
    /\ ~page.null
    /\ IsWordpressSite(page)
    /\ \E found \in BOOLEAN : html_content' = [html_content EXCEPT !.rebuilt = found]
    /\ ad_removal_strategy' = "extract"
    /\ calls' = calls \o <<"_is_wordpress_site", "_process_wordpress_html">>
    /\ pc' = "resolve"
    /\ UNCHANGED <<nvars, tvars, fvars, article_data, ncalls, files, environ, evars, page, requested,
                   include_images, cleaned_html, temp_html_path, pdf_path,
                   process, ret, created>>

ClassifyOther ==
    /\ pc = "classify"
    /\ ~page.null
    /\ ~IsWordpressSite(page)
    /\ calls' = Append(calls, "_is_wordpress_site")
    /\ pc' = "resolve"
    /\ UNCHANGED <<nvars, tvars, fvars, article_data, ncalls, files, environ, evars, page, requested,
                   include_images, html_content, ad_removal_strategy,
                   cleaned_html, temp_html_path, pdf_path, process, ret,
                   created>>

\* if ad_removal_strategy == "auto": _determine_best_strategy
ResolveAutoSkipped ==
    /\ pc = "resolve"
    /\ ad_removal_strategy = "auto"
    /\ pc' = "images"
    /\ UNCHANGED <<nvars, tvars, fvars, article_data, ncalls, files, environ, evars, page, requested,
                   include_images, html_content, cleaned_html, temp_html_path,
                   pdf_path, process, ret, created, ad_removal_strategy, calls>>

ResolveAuto ==
    /\ pc = "resolve"
    /\ ad_removal_strategy = "auto"
    /\ ad_removal_strategy' = DetermineBestStrategy(page)
    /\ calls' = Append(calls, "_determine_best_strategy")
    /\ pc' = "images"
    /\ UNCHANGED <<nvars, tvars, fvars, article_data, ncalls, files, environ, evars, page, requested,
                   include_images, html_content, cleaned_html, temp_html_path,
                   pdf_path, process, ret, created>>

ResolveExplicitEvaluates ==
    /\ pc = "resolve"
    /\ ad_removal_strategy # "auto"
    /\ calls' = Append(calls, "_determine_best_strategy")
    /\ pc' = "images"
    /\ UNCHANGED <<nvars, tvars, fvars, article_data, ncalls, files, environ, evars, page, requested,
                   include_images, html_content, ad_removal_strategy,
                   cleaned_html, temp_html_path, pdf_path, process, ret,
                   created>>

ResolveExplicit ==
    /\ pc = "resolve"
    /\ ad_removal_strategy # "auto"
    /\ pc' = "images"
    /\ UNCHANGED <<nvars, tvars, fvars, article_data, ncalls, files, environ, evars, page, requested,
                   include_images, html_content, ad_removal_strategy,
                   cleaned_html, temp_html_path, pdf_path, process, ret,
                   created, calls>>

\* if include_images: _enhance_content_images (the input again on a parse error)
EnhanceImages ==
    /\ pc = "images"
    /\ include_images
    /\ \E parsed \in BOOLEAN :
          html_content' = [html_content EXCEPT !.protected = parsed]
    /\ calls' = Append(calls, "_enhance_content_images")
    /\ pc' = "transform"
    /\ UNCHANGED <<nvars, tvars, fvars, article_data, ncalls, files, environ, evars, page, requested,
                   include_images, ad_removal_strategy, cleaned_html,
                   temp_html_path, pdf_path, process, ret, created>>

SkipImagesAlways ==
    /\ pc = "images"
    /\ pc' = "transform"
    /\ UNCHANGED <<nvars, tvars, fvars, article_data, ncalls, files, environ, evars, page, requested,
                   include_images, html_content, ad_removal_strategy,
                   cleaned_html, temp_html_path, pdf_path, process, ret,
                   created, calls>>

SkipImages ==
    /\ pc = "images"
    /\ ~include_images
    /\ pc' = "transform"
    /\ UNCHANGED <<nvars, tvars, fvars, article_data, ncalls, files, environ, evars, page, requested,
                   include_images, html_content, ad_removal_strategy,
                   cleaned_html, temp_html_path, pdf_path, process, ret,
                   created, calls>>

\* extract strategy: article_data = self.extract_article(url)
TransformExtract ==
    /\ pc = "transform"
    /\ ad_removal_strategy = "extract"
    /\ EnterExtract
    /\ calls' = Append(calls, "extract_article")
    /\ pc' = "extract_wait"
    /\ UNCHANGED <<nvars, tvars, fvars, article_data, ncalls, files, environ, page, requested, include_images,
                   html_content, ad_removal_strategy, cleaned_html,
                   temp_html_path, pdf_path, process, ret, created>>

\* article extracted: _build_clean_article_html
ExtractBuild ==
    /\ pc = "extract_wait" /\ epc = "returned"
    /\ Usable(eret)
    /\ cleaned_html' = BuildCleanArticleHtml(eret, include_images)
    /\ calls' = Append(calls, "_build_clean_article_html")
    /\ article_data' = eret
    /\ LeaveExtract
    /\ pc' = "inject"
    /\ UNCHANGED <<nvars, tvars, fvars, ncalls, files, environ, page,
                   requested, include_images, html_content,
                   ad_removal_strategy, temp_html_path, pdf_path, process,
                   ret, created>>

\* extraction failed: fall back to selective cleaning
ExtractFallbackReturnsNone ==
    /\ pc = "extract_wait" /\ epc = "returned"
    /\ ~Usable(eret)
    /\ article_data' = eret
    /\ LeaveExtract
    /\ ReturnNone
    /\ UNCHANGED <<nvars, tvars, fvars, ncalls, files, environ, page, requested, include_images,
                   html_content, ad_removal_strategy, cleaned_html,
                   temp_html_path, pdf_path, process, created, calls>>

ExtractFallback ==
    /\ pc = "extract_wait" /\ epc = "returned"
    /\ ~Usable(eret)
    /\ \E m \in MinimalOutputs :
          cleaned_html' = MinimalTransform(m, html_content, include_images)
    /\ calls' = calls \o <<"_selective_layout_cleaning",
                           "_prepare_html_for_better_layout">>
    /\ article_data' = eret
    /\ LeaveExtract
    /\ pc' = "inject"
    /\ UNCHANGED <<nvars, tvars, fvars, ncalls, files, environ, page,
                   requested, include_images, html_content,
                   ad_removal_strategy, temp_html_path, pdf_path, process,
                   ret, created>>

\* any other strategy: selective cleaning and layout preparation
TransformMinimal ==
    /\ pc = "transform"
    /\ ad_removal_strategy # "extract"
    /\ \E m \in MinimalOutputs :
          cleaned_html' = MinimalTransform(m, html_content, include_images)
    /\ calls' = calls \o <<"_selective_layout_cleaning",
                           "_prepare_html_for_better_layout">>
    /\ pc' = "gate"
    /\ UNCHANGED <<nvars, tvars, fvars, article_data, ncalls, files, environ, evars, page, requested,
                   include_images, html_content, ad_removal_strategy,
                   temp_html_path, pdf_path, process, ret, created>>

\* the quality gate accepts the minimal output
GateAccept ==
    /\ pc = "gate"
    /\ IsValidProcessedHtml(cleaned_html)
    /\ calls' = Append(calls, "_is_valid_processed_html")
    /\ pc' = "inject"
    /\ UNCHANGED <<nvars, tvars, fvars, article_data, ncalls, files, environ, evars, page, requested,
                   include_images, html_content, ad_removal_strategy,
                   cleaned_html, temp_html_path, pdf_path, process, ret,
                   created>>

\* the quality gate rejects it: article_data = self.extract_article(url)
GateReject ==
    /\ pc = "gate"
    /\ ~IsValidProcessedHtml(cleaned_html)
    /\ EnterExtract
    /\ calls' = calls \o <<"_is_valid_processed_html", "extract_article">>
    /\ pc' = "fallback_wait"
    /\ UNCHANGED <<nvars, tvars, fvars, article_data, ncalls, files, environ, page, requested, include_images,
                   html_content, ad_removal_strategy, cleaned_html,
                   temp_html_path, pdf_path, process, ret, created>>

\* the fallback extracted an article: _build_clean_article_html
FallbackBuild ==
    /\ pc = "fallback_wait" /\ epc = "returned"
    /\ Usable(eret)
    /\ cleaned_html' = BuildCleanArticleHtml(eret, include_images)
    /\ calls' = Append(calls, "_build_clean_article_html")
    /\ article_data' = eret
    /\ LeaveExtract
    /\ pc' = "inject"
    /\ UNCHANGED <<nvars, tvars, fvars, ncalls, files, environ, page,
                   requested, include_images, html_content,
                   ad_removal_strategy, temp_html_path, pdf_path, process,
                   ret, created>>

\* the fallback extracted nothing: cleaned_html stays what it was
FallbackKeep ==
    /\ pc = "fallback_wait" /\ epc = "returned"
    /\ ~Usable(eret)
    /\ article_data' = eret
    /\ LeaveExtract
    /\ pc' = "inject"
    /\ UNCHANGED <<nvars, tvars, fvars, ncalls, files, environ, page,
                   requested, include_images, html_content,
                   ad_removal_strategy, cleaned_html, temp_html_path,
                   pdf_path, process, ret, created, calls>>

\* layout-repair stylesheet before </head>
InjectCss ==
    /\ pc = "inject"
    /\ cleaned_html' = InjectLayoutRepairCss(cleaned_html)
    /\ pc' = "runtime_dir"
    /\ UNCHANGED <<nvars, tvars, fvars, article_data, ncalls, files, environ, evars, page, requested,
                   include_images, html_content, ad_removal_strategy,
                   temp_html_path, pdf_path, process, ret, created, calls>>

\* os.makedirs(runtime_dir) and os.environ['XDG_RUNTIME_DIR'] = runtime_dir
RuntimeDirOk ==
    /\ pc = "runtime_dir"
    /\ environ' = [environ EXCEPT !.XDG_RUNTIME_DIR = "/tmp/runtime-pdf"]
    /\ pc' = "write_html"
    /\ UNCHANGED <<nvars, tvars, fvars, article_data, ncalls, files, evars, page, requested, include_images,
                   html_content, ad_removal_strategy, cleaned_html,
                   temp_html_path, pdf_path, process, ret, created, calls>>

\* os.makedirs raises: os.environ['QT_LOGGING_RULES'] is set instead
RuntimeDirFails ==
    /\ pc = "runtime_dir"
    /\ environ' = [environ EXCEPT !.QT_LOGGING_RULES = "qt.qpa.xcb=false;*.debug=false"]
    /\ pc' = "write_html"
    /\ UNCHANGED <<nvars, tvars, fvars, article_data, ncalls, files, evars, page, requested, include_images,
                   html_content, ad_removal_strategy, cleaned_html,
                   temp_html_path, pdf_path, process, ret, created, calls>>

\* with NamedTemporaryFile(suffix='.html', delete=False) as temp_html:
\*     temp_html.write(...); temp_html_path = temp_html.name
WriteHtmlOk ==
    /\ pc = "write_html"
    /\ LET p == FreshPath(files)
       IN  /\ files' = CreateFile(files, p, cleaned_html)
           /\ created' = created \cup {p}
           /\ temp_html_path' = p
    /\ calls' = Append(calls, "write_html")
    /\ pc' = "create_pdf"
    /\ UNCHANGED <<nvars, tvars, fvars, article_data, ncalls, environ, evars, page, requested, include_images,
                   html_content, ad_removal_strategy, cleaned_html, pdf_path,
                   process, ret>>

\* NamedTemporaryFile raises: no file
WriteHtmlCreateRaises ==
    /\ pc = "write_html"
    /\ ReturnNone
    /\ UNCHANGED <<nvars, tvars, fvars, article_data, ncalls, files, environ, evars, page, requested,
                   include_images, html_content, ad_removal_strategy,
                   cleaned_html, temp_html_path, pdf_path, process, created,
                   calls>>

\* encode or write raises inside the with block: the file exists, the name
\* was not yet assigned to temp_html_path
WriteHtmlWriteRaises ==
    /\ pc = "write_html"
    /\ LET p == FreshPath(files)
       IN  /\ files' = CreateFile(files, p, EmptyFile)
           /\ created' = created \cup {p}
    /\ ReturnNone
    /\ UNCHANGED <<nvars, tvars, fvars, article_data, ncalls, environ, evars, page, requested, include_images,
                   html_content, ad_removal_strategy, cleaned_html,
                   temp_html_path, pdf_path, process, calls>>

\* pdf_path = tempfile.NamedTemporaryFile(suffix='.pdf', delete=False).name
CreatePdfOk ==
    /\ pc = "create_pdf"
    /\ LET p == FreshPath(files)
       IN  /\ files' = CreateFile(files, p, EmptyFile)
           /\ created' = created \cup {p}
           /\ pdf_path' = p
    /\ pc' = "rasterize"
    /\ UNCHANGED <<nvars, tvars, fvars, article_data, ncalls, environ, evars, page, requested, include_images,
                   html_content, ad_removal_strategy, cleaned_html,
                   temp_html_path, process, ret, calls>>

CreatePdfRaises ==
    /\ pc = "create_pdf"
    /\ ReturnNone
    /\ UNCHANGED <<nvars, tvars, fvars, article_data, ncalls, files, environ, evars, page, requested,
                   include_images, html_content, ad_removal_strategy,
                   cleaned_html, temp_html_path, pdf_path, process, created,
                   calls>>

\* what the rasterizer leaves at pdf_path
RasterFiles(fs, p, o) ==
    IF o.removed THEN CleanupTempFile(fs, p)
    ELSE IF o.wrote # EmptyFile THEN CreateFile(fs, p, o.wrote)
    ELSE fs

\* subprocess.run(cmd, timeout=120) returns
RasterizeReturns ==
    /\ pc = "rasterize"
    /\ \E o \in RasterOutcomes :
          /\ o.exit \in {"0", "1"}
          /\ process' = o
          /\ files' = RasterFiles(files, pdf_path, o)
    /\ calls' = Append(calls, "wkhtmltopdf")
    /\ pc' = "check_output"
    /\ UNCHANGED <<nvars, tvars, fvars, article_data, ncalls, environ, evars, page, requested, include_images,
                   html_content, ad_removal_strategy, cleaned_html,
                   temp_html_path, pdf_path, ret, created>>

\* subprocess.run raises TimeoutExpired or another exception
RasterizeRaises ==
    /\ pc = "rasterize"
    /\ \E o \in RasterOutcomes :
          /\ o.exit \in {"timeout", "raises"}
          /\ process' = o
          /\ files' = RasterFiles(files, pdf_path, o)
    /\ calls' = Append(calls, "wkhtmltopdf")
    /\ ReturnNone
    /\ UNCHANGED <<nvars, tvars, fvars, article_data, ncalls, environ, evars, page, requested, include_images,
                   html_content, ad_removal_strategy, cleaned_html,
                   temp_html_path, pdf_path, created>>

\* os.path.exists(pdf_path) and os.path.getsize(pdf_path) > 0
OutputExists(fs, p) == p \in DOMAIN fs

OutputPresent(fs, p) == p \in DOMAIN fs /\ fs[p] # EmptyFile

\* if process.returncode != 0: return None
CheckExitCode ==
    /\ pc = "check_output"
    /\ process.exit # "0"
    /\ ReturnNone
    /\ UNCHANGED <<nvars, tvars, fvars, article_data, ncalls, files, environ, evars, page, requested,
                   include_images, html_content, ad_removal_strategy,
                   cleaned_html, temp_html_path, pdf_path, process, created,
                   calls>>

\* the output file exists and is not empty: return its bytes
ReadPdf ==
    /\ pc = "check_output"
    /\ process.exit = "0"
    /\ OutputPresent(files, pdf_path)
    /\ ret' = Bytes(files[pdf_path])
    /\ pc' = "finally"
    /\ UNCHANGED <<nvars, tvars, fvars, article_data, ncalls, files, environ, evars, page, requested,
                   include_images, html_content, ad_removal_strategy,
                   cleaned_html, temp_html_path, pdf_path, process, created,
                   calls>>

\* open or read raises: the inner except returns None
ReadPdfRaises ==
    /\ pc = "check_output"
    /\ process.exit = "0"
    /\ OutputPresent(files, pdf_path)
    /\ ReturnNone
    /\ UNCHANGED <<nvars, tvars, fvars, article_data, ncalls, files, environ, evars, page, requested,
                   include_images, html_content, ad_removal_strategy,
                   cleaned_html, temp_html_path, pdf_path, process, created,
                   calls>>

\* the output file is missing or empty: return None
OutputMissing ==
    /\ pc = "check_output"
    /\ process.exit = "0"
    /\ ~OutputPresent(files, pdf_path)
    /\ ReturnNone
    /\ UNCHANGED <<nvars, tvars, fvars, article_data, ncalls, files, environ, evars, page, requested,
                   include_images, html_content, ad_removal_strategy,
                   cleaned_html, temp_html_path, pdf_path, process, created,
                   calls>>

\* finally: self._cleanup_temp_files([temp_html_path, pdf_path])
Finally ==
    /\ pc = "finally"
    /\ files' = CleanupTempFiles(files, temp_html_path, pdf_path)
    /\ pc' = "returned"
    /\ UNCHANGED <<nvars, tvars, fvars, article_data, ncalls, environ, evars, page, requested, include_images,
                   html_content, ad_removal_strategy, cleaned_html,
                   temp_html_path, pdf_path, process, ret, created, calls>>

\* the report processor takes the bytes or None
ConvertReturn ==
    /\ pc = "returned"
    /\ pc' = "idle"
    /\ page' = CHOOSE p \in Pages : p.null
    /\ requested' = "auto"
    /\ include_images' = TRUE
    /\ html_content' = NoHtml
    /\ ad_removal_strategy' = "auto"
    /\ article_data' = NoneResult
    /\ cleaned_html' = NoDoc
    /\ temp_html_path' = NoPath
    /\ pdf_path' = NoPath
    /\ process' = NotRun
    /\ ret' = NoneBytes
    /\ created' = {}
    /\ calls' = << >>
    /\ UNCHANGED <<nvars, tvars, fvars, ncalls, files, environ, evars>>

Init == PipelineInit /\ FnIdle /\ TmpIdle /\ OthersIdle

Next ==
    \/ CallExtract
    \/ AttemptStandard
    \/ AttemptDirect
    \/ AttemptAdvanced
    \/ ValidateAccept
    \/ ValidateNext
    \/ ValidateExhausted
    \/ ExtractReturn
    \/ CallConvert
    \/ ClassifyRaises
    \/ ClassifyWordpress
    \/ ClassifyOther
    \/ ResolveAuto
    \/ ResolveExplicit
    \/ EnhanceImages
    \/ SkipImages
    \/ TransformExtract
    \/ ExtractBuild
    \/ ExtractFallback
    \/ TransformMinimal
    \/ GateAccept
    \/ GateReject
    \/ FallbackBuild
    \/ FallbackKeep
    \/ InjectCss
    \/ RuntimeDirOk
    \/ RuntimeDirFails
    \/ WriteHtmlOk
    \/ WriteHtmlCreateRaises
    \/ WriteHtmlWriteRaises
    \/ CreatePdfOk
    \/ CreatePdfRaises
    \/ RasterizeReturns
    \/ RasterizeRaises
    \/ CheckExitCode
    \/ ReadPdf
    \/ ReadPdfRaises
    \/ OutputMissing
    \/ Finally
    \/ ConvertReturn

Spec == Init /\ [][Next]_vars

(***************************************************************************)
(* The helper methods of HTMLProcessor called on their own: the method     *)
(* under study is fixed at the start and is then called on inputs drawn    *)
(* from small sets                                                         *)
(***************************************************************************)
pvars == <<ncalls, files, environ, evars, cvars>>

Call(a, o) == [arg |-> a, out |-> o]

\* pages on both sides of every threshold _determine_best_strategy reads
StrategyPages ==
    { Page(FALSE, s, l, d, se, a, sc, dn) :
        s \in {{}, {1}}, l \in BOOLEAN,
        d \in {0, MAX_NESTED, MAX_NESTED + 1, MAX_DIVS, MAX_DIVS + 1},
        se \in {MAX_NESTED, MAX_NESTED + 1},
        a \in {MAX_NESTED, MAX_NESTED + 1},
        sc \in {MAX_SCRIPTS, MAX_SCRIPTS + 1}, dn \in BOOLEAN }

\* self._determine_best_strategy(html_content, url)
CallDetermineBestStrategy ==
    /\ fn = "_determine_best_strategy"
    /\ hist = << >>
    /\ \E p \in StrategyPages :
          /\ arg' = p
          /\ out' = DetermineBestStrategy(p)
          /\ hist' = <<Call(p, DetermineBestStrategy(p))>>
    /\ UNCHANGED <<nvars, tvars, pvars, fn, debug_mode>>

\* processed documents on both sides of the quality gate's thresholds
GateLens ==
    {0, 1, 20, 100, MAX_HTML_SIZE - 1, MAX_HTML_SIZE, MAX_HTML_SIZE + 1}

GateAlnums(l) ==
    {0, 4, l} \cup
        { (MIN_TEXT_RATIO_PERCENT * l) \div 100 + k : k \in -1..1 }

GateDocs ==
    UNION { { Measure(a, l, c, 1) : a \in GateAlnums(l), c \in BOOLEAN } :
              l \in GateLens }

GateInputs ==
    { d \in GateDocs :
        /\ d.alnum >= 0
        /\ d.alnum <= d.len
        \* the shortest marker, '<main', has 5 characters, 4 alphanumeric
        /\ d.container => (d.alnum >= 4 /\ d.len >= 5 /\ d.len > d.alnum) }

\* self._is_valid_processed_html(html_content)
CallIsValidProcessedHtml ==
    /\ fn = "_is_valid_processed_html"
    /\ hist = << >>
    /\ \E d \in GateInputs :
          /\ arg' = d
          /\ out' = IsValidProcessedHtml(d)
          /\ hist' = <<Call(d, IsValidProcessedHtml(d))>>
    /\ UNCHANGED <<nvars, tvars, pvars, fn, debug_mode>>

\* hasattr(self, 'debug_mode') and self.debug_mode
DebugModes == {"absent", "off", "on"}

\* the body of _is_wordpress_site from check c on: every check is an
\* "if <match>: return True", the last statement is "return False"
RECURSIVE ScanChecksNoShortCircuit(_, _)
ScanChecksNoShortCircuit(pg, c) ==
    IF c \notin WpChecks THEN [out |-> FALSE, evaluated |-> << >>]
    ELSE LET rest == ScanChecksNoShortCircuit(pg, c + 1)
         IN  [out |-> (c \in pg.sigs) \/ rest.out,
              evaluated |-> <<c>> \o rest.evaluated]

RECURSIVE ScanChecks(_, _)
ScanChecks(pg, c) ==
    IF c \notin WpChecks THEN [out |-> FALSE, evaluated |-> << >>]
    ELSE IF c \in pg.sigs THEN [out |-> TRUE, evaluated |-> <<c>>]
    ELSE LET rest == ScanChecks(pg, c + 1)
         IN  [out |-> rest.out, evaluated |-> <<c>> \o rest.evaluated]

\* one page per check matching alone, per check matching together with a
\* later one, and the page no check matches
ScanPages ==
    { Page(FALSE, s, FALSE, 3, 0, 1, 2, FALSE) :
        s \in {{}} \cup { {c} : c \in WpChecks }
                  \cup { {c, 11} : c \in WpChecks }
                  \cup { {c, c + 1} : c \in 1..10 } }

\* what a call of _is_wordpress_site ends with: re.search on None raises
WordpressOutcome(p) ==
    IF p.null THEN "TypeError"
    ELSE IF ScanChecks(p, 1).out THEN "True" ELSE "False"

WpCall(p, o, before, after) ==
    [arg |-> p, out |-> o, before |-> before, after |-> after,
     evaluated |-> IF p.null THEN << >> ELSE ScanChecks(p, 1).evaluated]

\* self._is_wordpress_site(html_content, url); debug_mode is read for the
\* two debug log lines only
CallIsWordpressSiteDebugDependent ==
    /\ fn = "_is_wordpress_site"
    /\ Len(hist) < MaxCalls
    /\ \E p \in (IF hist = << >> THEN Pages \cup ScanPages ELSE Pages) :
          LET o == IF debug_mode = "on" /\ ~p.null THEN "False"
                   ELSE WordpressOutcome(p)
          IN  /\ arg' = p
              /\ out' = o
              /\ debug_mode' = debug_mode
              /\ hist' = Append(hist, WpCall(p, o, debug_mode, debug_mode'))
    /\ UNCHANGED <<nvars, tvars, pvars, fn>>

CallIsWordpressSite ==
    /\ fn = "_is_wordpress_site"
    /\ Len(hist) < MaxCalls
    /\ \E p \in (IF hist = << >> THEN Pages \cup ScanPages ELSE Pages) :
          /\ arg' = p
          /\ out' = WordpressOutcome(p)
          /\ debug_mode' = debug_mode
          /\ hist' = Append(hist, WpCall(p, WordpressOutcome(p),
                                         debug_mode, debug_mode'))
    /\ UNCHANGED <<nvars, tvars, pvars, fn>>

\* the owner of the instance sets or deletes the attribute between calls
SetDebugMode ==
    /\ fn = "_is_wordpress_site"
    /\ \E m \in DebugModes \ {debug_mode} : debug_mode' = m
    /\ UNCHANGED <<nvars, tvars, pvars, fn, arg, out, hist>>

\* an image URL: relative ('a.png') or absolute ('https://host/a.png')
Image(id, abs) == [id |-> id, abs |-> abs]
NoImage == Image(0, TRUE)

\* urljoin(url, img_url) for a relative img_url when url is given
AbsoluteUrl(url, img) ==
    IF url # "" /\ ~img.abs THEN Image(img.id, TRUE) ELSE img

\* content_html as runs of characters: characters from..to of a paragraph
\* element or of an img element
Run(src, from, to) == [src |-> src, from |-> from, to |-> to]

\* '<p>' + paragraph.strip() + '</p>\n'
ParagraphRun(k, n) == Run(<<"p", k>>, 1, n + 8)

\* '<img src="' + img_url + '" alt="" class="article-image" />\n'
ImageRun(img) == Run(<<"img", img>>, 1, 44 + (IF img.abs THEN 20 ELSE 5))

RECURSIVE ContentLen(_)
ContentLen(c) ==
    IF c = << >> THEN 0
    ELSE (Head(c).to - Head(c).from + 1) + ContentLen(Tail(c))

\* content_html[:insert_pos] + run + content_html[insert_pos:]
RECURSIVE InsertAt(_, _, _)
InsertAt(c, pos, run) ==
    IF c = << >> THEN <<run>>
    ELSE LET h == Head(c)
             n == h.to - h.from + 1
         IN  IF pos <= 0 THEN <<run>> \o c
             ELSE IF pos < n
                  THEN <<Run(h.src, h.from, h.from + pos - 1), run,
                         Run(h.src, h.from + pos, h.to)>> \o Tail(c)
             ELSE <<h>> \o InsertAt(Tail(c), pos - n, run)

\* for paragraph in text.split('\n\n'): the non-blank paragraphs, by length
RECURSIVE Paragraphs(_, _)
Paragraphs(text, k) ==
    IF text = << >> THEN << >>
    ELSE <<ParagraphRun(k, Head(text))>> \o Paragraphs(Tail(text), k + 1)

MAX_IMAGES == 5

\* for img_url in images: the insertion loop; offsets records insert_pos
\* and len(content_html) of every insertion
RECURSIVE InsertImages(_, _, _, _, _)
InsertImages(images, url, used_images, image_count, content_html) ==
    IF images = << >> THEN [content |-> content_html, offsets |-> << >>]
    ELSE LET img_url == Head(images)
         IN  IF img_url \notin used_images /\ image_count < MAX_IMAGES
             THEN LET joined == AbsoluteUrl(url, img_url)
                      n == ContentLen(content_html)
                      mid == n \div 2 + image_count * (n \div 10)
                      insert_pos == IF mid < n - 1 THEN mid ELSE n - 1
                      rest == InsertImages(Tail(images), url,
                                           used_images \cup {joined},
                                           image_count + 1,
                                           InsertAt(content_html, insert_pos,
                                                    ImageRun(joined)))
                  IN  [content |-> rest.content,
                       offsets |-> <<[pos |-> insert_pos, len |-> n]>>
                                      \o rest.offsets]
             ELSE InsertImages(Tail(images), url, used_images, image_count,
                               content_html)

BuildArgs(title, text, top_image, images, url, with_images) ==
    [title |-> title, text |-> text, top_image |-> top_image,
     images |-> images, url |-> url, include_images |-> with_images]

\* the document _build_clean_article_html returns, given what used_images
\* holds when the loop starts
CleanArticleHtmlFrom(used, a) ==
    LET paragraphs == Paragraphs(a.text, 1)
        used_images == IF a.top_image # NoImage
                       THEN used \cup {a.top_image} ELSE used
        inserted ==
            IF a.include_images /\ a.images # << >>
            THEN InsertImages(a.images, a.url, used_images, 0, paragraphs)
            ELSE [content |-> paragraphs, offsets |-> << >>]
    IN  [title |-> a.title,
         main_image |-> IF a.top_image # NoImage /\ a.include_images
                        THEN a.top_image ELSE NoImage,
         content |-> inserted.content,
         offsets |-> inserted.offsets,
         footer |-> IF a.url # "" THEN a.url ELSE "Unknown source"]

\* used_images = set() is a local of the call
CleanArticleHtml(a) == CleanArticleHtmlFrom({}, a)

BuildImageLists ==
    { << >>, <<Image(1, FALSE)>>, <<Image(1, FALSE), Image(2, TRUE)>>,
      <<Image(1, FALSE), Image(1, FALSE)>> }

BuildInputs ==
    { BuildArgs("title", t, top, imgs, u, inc) :
        t \in {<< >>, <<30, 40>>}, top \in {NoImage, Image(2, TRUE)},
        imgs \in BuildImageLists, u \in {"", "https://host/post"},
        inc \in BOOLEAN }

\* more images than the loop inserts, and a relative URL of the top image
BuildLongLists ==
    { <<Image(3, TRUE), Image(4, TRUE), Image(5, TRUE), Image(6, TRUE),
        Image(7, TRUE), Image(8, TRUE)>>,
      <<Image(2, TRUE), Image(3, TRUE), Image(4, TRUE), Image(5, TRUE),
        Image(6, TRUE), Image(7, TRUE), Image(8, TRUE)>>,
      <<Image(2, FALSE), Image(3, TRUE)>> }

BuildLongInputs ==
    { BuildArgs("title", t, Image(2, TRUE), imgs, "https://host/post", inc) :
        t \in {<< >>, <<30, 40>>}, imgs \in BuildLongLists, inc \in BOOLEAN }

\* the images earlier calls have put into their documents
RECURSIVE UsedBy(_)
UsedBy(h) ==
    IF h = << >> THEN {}
    ELSE {Head(h).out.content[i].src[2] :
            i \in {j \in DOMAIN Head(h).out.content :
                      Head(h).out.content[j].src[1] = "img"}}
         \cup UsedBy(Tail(h))

\* self._build_clean_article_html(title, text, top_image, images, url,
\* include_images)
CallBuildCleanArticleHtmlSharedSet ==
    /\ fn = "_build_clean_article_html"
    /\ Len(hist) < MaxCalls
    /\ \E a \in (IF hist = << >> THEN BuildInputs \cup BuildLongInputs ELSE BuildInputs) :
          /\ arg' = a
          /\ out' = CleanArticleHtmlFrom(UsedBy(hist), a)
          /\ hist' = Append(hist, Call(a, CleanArticleHtmlFrom(UsedBy(hist), a)))
    /\ UNCHANGED <<nvars, tvars, pvars, fn, debug_mode>>

CallBuildCleanArticleHtml ==
    /\ fn = "_build_clean_article_html"
    /\ Len(hist) < MaxCalls
    /\ \E a \in (IF hist = << >> THEN BuildInputs \cup BuildLongInputs ELSE BuildInputs) :
          /\ arg' = a
          /\ out' = CleanArticleHtml(a)
          /\ hist' = Append(hist, Call(a, CleanArticleHtml(a)))
    /\ UNCHANGED <<nvars, tvars, pvars, fn, debug_mode>>

\* main_selectors, in the order of the list
BaseMainSelectors ==
    <<"article.post", "article .entry-content", ".post-content",
      ".post .entry-content", "article.post", ".the-content",
      "#content .post", ".entry-content", "article", ".post", ".content",
      "main", ".main-content", "#primary", ".site-content article">>

\* main_selectors after the two insert(0, ...) of the detected theme
MainSelectors(theme) ==
    IF theme \in {"twentytwenty", "twentytwentyone", "twentytwentytwo"}
    THEN <<"article .entry", ".entry-content">> \o BaseMainSelectors
    ELSE IF theme \in {"astra", "generatepress", "oceanwp"}
    THEN <<".content-area", ".ast-article-single">> \o BaseMainSelectors
    ELSE BaseMainSelectors

\* the input of _process_wordpress_html and what the page and the
\* libraries make of it
WpInput(id, pr, theme, matched, raising, rr, br) ==
    [html |-> [id |-> id, rebuilt |-> FALSE],
     parse_raises |-> pr,        \* html.document_fromstring raises
     theme |-> theme,            \* wp-content/themes/<theme>, or "none"
     matched |-> matched,        \* selectors matching an element
     raising |-> raising,        \* selectors on which cssselect raises
     removal_raises |-> rr,      \* cssselect raises in the removal loop
     build_raises |-> br]        \* steps 8 to 12 raise

WpInputs ==
    { WpInput(1, pr, th, m, r, rr, br) :
        pr \in BOOLEAN,
        th \in {"none", "twentytwenty", "astra", "divi"},
        m \in { {}, {".content-area"}, {"article .entry"}, {"main"},
                {".entry-content"}, {"article", "main"} },
        r \in { {}, {"article.post"}, {"main"} },
        rr \in BOOLEAN, br \in BOOLEAN }

Found(selector) == [found |-> TRUE, selector |-> selector, error |-> FALSE]
NotFound == [found |-> FALSE, selector |-> "", error |-> FALSE]
HandlerRaised == [found |-> FALSE, selector |-> "", error |-> TRUE]

\* for selector in main_selectors: the except clause reads self.debug_mode,
\* an attribute __init__ never sets
RECURSIVE FindMainContent(_, _, _)
FindMainContent(selectors, a, dm) ==
    IF selectors = << >> THEN NotFound
    ELSE LET selector == Head(selectors)
         IN  IF selector \in a.raising
             THEN IF dm = "absent" THEN HandlerRaised
                  ELSE FindMainContent(Tail(selectors), a, dm)
             ELSE IF selector \in a.matched THEN Found(selector)
             ELSE FindMainContent(Tail(selectors), a, dm)

Rebuilt(a, selector) ==
    [id |-> a.html.id, rebuilt |-> TRUE, main |-> selector,
     theme |-> a.theme]

\* _process_wordpress_html
ProcessWordpressHtmlAlwaysRebuilds(a, dm) ==
    LET main_content == FindMainContent(MainSelectors(a.theme), a, dm)
    IN  IF a.parse_raises THEN a.html
        ELSE IF a.removal_raises /\ dm = "absent" THEN a.html
        ELSE IF main_content.error THEN a.html
        ELSE IF a.build_raises /\ main_content.found THEN a.html
        ELSE Rebuilt(a, main_content.selector)

ProcessWordpressHtml(a, dm) ==
    LET main_content == FindMainContent(MainSelectors(a.theme), a, dm)
    IN  IF a.parse_raises THEN a.html
        ELSE IF a.removal_raises /\ dm = "absent" THEN a.html
        ELSE IF main_content.error THEN a.html
        ELSE IF ~main_content.found THEN a.html
        ELSE IF a.build_raises THEN a.html
        ELSE Rebuilt(a, main_content.selector)

\* self._process_wordpress_html(html_content, url)
CallProcessWordpressHtml ==
    /\ fn = "_process_wordpress_html"
    /\ hist = << >>
    /\ \E a \in WpInputs :
          /\ arg' = a
          /\ out' = ProcessWordpressHtml(a, debug_mode)
          /\ hist' = <<Call(a, ProcessWordpressHtml(a, debug_mode))>>
    /\ UNCHANGED <<nvars, tvars, pvars, fn, debug_mode>>

\* the value of img.get('width'): absent, or a text that is made of
\* digits only or not, with the number it starts with
Width(present, isdigit, value) ==
    [present |-> present, isdigit |-> isdigit, value |-> value]

NoWidth == Width(FALSE, FALSE, 0)
EmptyWidth == Width(TRUE, FALSE, 0)

Widths ==
    { NoWidth, EmptyWidth, Width(TRUE, TRUE, 30), Width(TRUE, TRUE, 49),
      Width(TRUE, TRUE, 50), Width(TRUE, TRUE, 800),
      Width(TRUE, FALSE, 30) }              \* width="30px"

\* a class or src attribute: the skip terms its lowercase form contains,
\* and the terms it is named after
Name(terms, named) == [terms |-> terms, named |-> named]

ImgClasses ==
    { Name({}, {}),                         \* no class, or class="photo"
      Name({"icon"}, {"icon"}),             \* class="icon"
      Name({"banner"}, {"banner"}) }        \* class="Top-Banner"

ImgSources ==
    { Name({}, {}),                         \* src="photo.jpg"
      Name({"logo"}, {"logo"}),             \* src="/img/logo.png"
      Name({"ad"}, {}) }                    \* src="/uploads/header.jpg"

\* an img element: the content selectors that match one of its ancestors,
\* in the order of content_selectors, and its attributes
Img(regions, width, class, src) ==
    [regions |-> regions, width |-> width, class |-> class, src |-> src]

ImgSamples ==
    { Img(r, w, c, sr) :
        r \in {<< >>, <<"article">>, <<"article", "main">>},
        w \in Widths, c \in ImgClasses, sr \in ImgSources }

IconImage == Img(<< >>, Width(TRUE, TRUE, 30), Name({"icon"}, {"icon"}),
                 Name({}, {}))
ArticleImage == Img(<<"article">>, Width(TRUE, TRUE, 800), Name({}, {}),
                    Name({}, {}))

\* html_content as _enhance_content_images sees it: whether lxml parses
\* it, and its img elements
ImagePage(parses, imgs) == [parses |-> parses, imgs |-> imgs]

ImagePages ==
    { ImagePage(ok, <<i>>) : ok \in BOOLEAN, i \in ImgSamples }
      \cup { ImagePage(ok, <<IconImage, ArticleImage>>) : ok \in BOOLEAN }

MIN_IMAGE_WIDTH == 50

\* width and width.isdigit() and int(width) < 50
SkippedAsSmallAnyText(w) ==
    w.present /\ w.value < MIN_IMAGE_WIDTH

SkippedAsSmall(w) ==
    w.present /\ w.isdigit /\ w.value < MIN_IMAGE_WIDTH

\* any(term in img_class or term in img_src for term in [...])
SkippedAsAd(img) ==
    \E term \in {"ad", "banner", "icon", "logo"} :
        term \in img.class.terms \/ term \in img.src.terms

\* how many times the pass appends the protective class and style to
\* each img: once for every content element the img lies in
EnhanceContentImages(pg) ==
    [ i \in DOMAIN pg.imgs |->
        IF ~pg.parses THEN 0
        ELSE IF SkippedAsSmall(pg.imgs[i].width) THEN 0
        ELSE IF SkippedAsAd(pg.imgs[i]) THEN 0
        ELSE Len(pg.imgs[i].regions) ]

\* self._enhance_content_images(html_content)
CallEnhanceContentImages ==
    /\ fn = "_enhance_content_images"
    /\ hist = << >>
    /\ \E pg \in ImagePages :
          /\ arg' = pg
          /\ out' = EnhanceContentImages(pg)
          /\ hist' = <<Call(pg, EnhanceContentImages(pg))>>
    /\ UNCHANGED <<nvars, tvars, pvars, fn, debug_mode>>

\* self._extract_advanced(url)
CallExtractAdvanced ==
    /\ fn = "_extract_advanced"
    /\ hist = << >>
    /\ \E e \in AdvancedEnvs :
          LET o == [result |-> ExtractAdvanced(e), trace |-> AdvancedTrace(e)]
          IN  /\ arg' = e
              /\ out' = o
              /\ hist' = <<Call(e, o)>>
    /\ UNCHANGED <<nvars, tvars, pvars, fn, debug_mode>>

\* html_content as _prepare_html_for_better_layout reads it:
\*   html: "present" when re.search(r'<html.*?>.*?</html>') matches
\*   head: "present"  '<head>' ... '</head>'
\*         "attrs"    a head element whose opening tag carries attributes,
\*                    so that '<head>' is not a substring
\*         "reversed" both substrings, '</head>' before '<head>'
\*   body: "present"  '<body' ... '>' ... '</body>'
\*         "reversed" both substrings, '</body>' before '<body'
\*   base: '<base' is a substring
\*   url:  "" | "ok" | "unparsable" (urlparse raises)
LayoutInput(empty, html, head, body, base, url) ==
    [empty |-> empty, html |-> html, head |-> head, body |-> body,
     base |-> base, url |-> url]

LayoutInputs ==
    { LayoutInput(FALSE, h, hd, b, bs, u) :
        h \in {"absent", "present"},
        hd \in {"absent", "attrs", "reversed", "present"},
        b \in {"absent", "reversed", "present"},
        bs \in BOOLEAN, u \in {"", "ok", "unparsable"} }
      \cup { LayoutInput(TRUE, "absent", "absent", "absent", FALSE, u) :
               u \in {"", "ok"} }

\* what the returned document contains
Layout(html_el, head_el, body_el, base_url_tag, pdf_css, footer) ==
    [html_el |-> html_el, head_el |-> head_el, body_el |-> body_el,
     base_url_tag |-> base_url_tag, pdf_css |-> pdf_css, footer |-> footer]

\* _prepare_html_for_better_layout(html_content, url, include_images)
PrepareHtmlForBetterLayout(a) ==
    LET has_html_tag == a.html = "present"
        has_head_tag == a.head \in {"present", "reversed"}
        has_body_tag == a.body \in {"present", "reversed"}
        base_url_tag == a.url = "ok"
        head_match   == a.head = "present"
        body_match   == a.body = "present"
    IN  IF a.empty
        THEN Layout(FALSE, FALSE, FALSE, FALSE, FALSE, FALSE)
        ELSE IF ~has_html_tag
        THEN LET head_added == ~has_head_tag \/ head_match
                 body_added == ~has_body_tag \/ body_match
             IN  Layout(TRUE, head_added, body_added,
                        head_added /\ base_url_tag, head_added,
                        body_added /\ a.url # "")
        ELSE Layout(TRUE, a.head \in {"present", "attrs"}, body_match,
                    has_head_tag /\ base_url_tag /\ ~a.base, has_head_tag,
                    has_body_tag /\ a.url # "")

\* self._prepare_html_for_better_layout(cleaned_html, url, include_images)
CallPrepareHtmlForBetterLayout ==
    /\ fn = "_prepare_html_for_better_layout"
    /\ hist = << >>
    /\ \E a \in LayoutInputs :
          /\ arg' = a
          /\ out' = PrepareHtmlForBetterLayout(a)
          /\ hist' = <<Call(a, PrepareHtmlForBetterLayout(a))>>
    /\ UNCHANGED <<nvars, tvars, pvars, fn, debug_mode>>

\* one answer of api_client.direct_query to the paging query:
\*   failed: None, or no "data", or no "reports"
\*   edges: number of edges; nodes: the edges that hold a "node"
\*   info: "absent" (no pageInfo), "malformed" (pageInfo without
\*         hasNextPage: KeyError), or "given" with hasNextPage, endCursor
PageAnswer(failed, edges, nodes, info, hasNextPage, endCursor) ==
    [failed |-> failed, edges |-> edges, nodes |-> nodes, info |-> info,
     hasNextPage |-> hasNextPage, endCursor |-> endCursor]

FailedAnswer == PageAnswer(TRUE, 0, 0, "absent", FALSE, "")

PageAnswers ==
    { FailedAnswer, PageAnswer(FALSE, 0, 0, "given", TRUE, "c") }
      \cup { PageAnswer(FALSE, 1, 1, i, FALSE, "") :
               i \in {"absent", "malformed"} }
      \cup { PageAnswer(FALSE, n, n, "given", h, c) :
               n \in 1..2, h \in BOOLEAN, c \in {"", "c"} }
      \cup { PageAnswer(FALSE, 2, 1, "given", TRUE, "c") }

MaxPages == 3

\* the answers the server gives to the first, second, ... query
AllReportsInputs ==
    { [max_count |-> m, answers |-> a] :
        m \in 0..3, a \in [1..MaxPages -> PageAnswers] }

\* if max_count > 0 and len(all_reports) >= max_count
MaxCountReachedStrict(max_count, n) == max_count > 0 /\ n > max_count

MaxCountReached(max_count, n) == max_count > 0 /\ n >= max_count

\* get_all_reports: the while loop from its k-th query on, all_reports
\* holding n reports
RECURSIVE FetchPages(_, _, _)
FetchPages(a, k, n) ==
    LET r == IF k <= MaxPages THEN a.answers[k] ELSE FailedAnswer
        total == n + r.nodes
    IN  IF r.failed \/ r.edges = 0
        THEN [returned |-> n, queries |-> k, raised |-> FALSE]
        ELSE IF r.info = "malformed"
        THEN [returned |-> 0, queries |-> k, raised |-> FALSE]
        ELSE IF MaxCountReached(a.max_count, total)
        THEN [returned |-> a.max_count, queries |-> k, raised |-> FALSE]
        ELSE IF r.info = "given" /\ r.hasNextPage /\ r.endCursor # ""
        THEN FetchPages(a, k + 1, total)
        ELSE [returned |-> total, queries |-> k, raised |-> FALSE]

\* self.report_fetcher.get_all_reports(batch_size, max_count)
CallGetAllReports ==
    /\ fn = "get_all_reports"
    /\ hist = << >>
    /\ \E a \in AllReportsInputs :
          /\ arg' = a
          /\ out' = FetchPages(a, 1, 0)
          /\ hist' = <<Call(a, FetchPages(a, 1, 0))>>
    /\ UNCHANGED <<nvars, tvars, pvars, fn, debug_mode>>

\* a report as fetched: its id, whether objectLabel holds the processed
\* label, whether find_url_in_report finds a URL, its report types
\* ("none": empty list, "target": one of them is a configured target type
\* once both sides are lower-cased, "other"), whether description is null
Report(id, label, url, types, nodesc) ==
    [id |-> id, label |-> label, url |-> url, types |-> types,
     description_null |-> nodesc]

\* the rule without the in-memory check
IsReportProcessableNoMemory(report, processed, process_all) ==
    IF report.label THEN FALSE
    ELSE IF ~report.url THEN FALSE
    ELSE IF ~process_all /\ report.types # "none"
    THEN report.types = "target"
    ELSE TRUE

\* ReportProcessor.is_report_processable(report, report_types, url)
IsReportProcessable(report, processed, process_all) ==
    IF report.id \in processed THEN FALSE
    ELSE IF report.label THEN FALSE
    ELSE IF ~report.url THEN FALSE
    ELSE IF ~process_all /\ report.types # "none"
    THEN report.types = "target"
    ELSE TRUE

\* processed_reports after is_report_processable: a labelled report is
\* added to the in-memory cache
ProcessedAfterCheck(report, processed) ==
    IF report.id \notin processed /\ report.label
    THEN processed \cup {report.id} ELSE processed

\* _process_all_reports_on_start: whether the loop body reaches
\* process_report; lower_case: the configured target types are written in
\* lower case (the connector's copy of the list is stripped only)
StartupCallsProcessReport(report, process_all, lower_case) ==
    IF report.label THEN FALSE
    ELSE IF ~report.url THEN FALSE
    ELSE IF ~process_all
    THEN report.types = "target" /\ lower_case
    ELSE TRUE

StartupInputs ==
    { [report |-> Report(1, l, u, t, FALSE), process_all_reports |-> pa,
       processed |-> pr, lower_case |-> lc] :
        l \in BOOLEAN, u \in BOOLEAN, t \in {"none", "target", "other"},
        pa \in BOOLEAN, pr \in {{}, {1}}, lc \in BOOLEAN }

\* one iteration of the loop of _process_all_reports_on_start
CallProcessAllReportsOnStart ==
    /\ fn = "_process_all_reports_on_start"
    /\ hist = << >>
    /\ \E a \in StartupInputs :
          LET o == StartupCallsProcessReport(a.report, a.process_all_reports,
                                             a.lower_case)
          IN  /\ arg' = a
              /\ out' = o
              /\ hist' = <<Call(a, o)>>
    /\ UNCHANGED <<nvars, tvars, pvars, fn, debug_mode>>

HelperNames ==
    {"_extract_advanced", "_determine_best_strategy", "_is_valid_processed_html",
     "_is_wordpress_site", "_build_clean_article_html",
     "_process_wordpress_html", "_enhance_content_images",
     "_prepare_html_for_better_layout", "get_all_reports",
     "_process_all_reports_on_start"}

HelperInit ==
    /\ PipelineInit
    /\ TmpIdle
    /\ OthersIdle
    /\ fn \in HelperNames
    /\ arg = NoArg
    /\ out = Pending
    /\ debug_mode \in DebugModes
    /\ hist = << >>

HelperNext ==
    \/ CallDetermineBestStrategy
    \/ CallIsValidProcessedHtml
    \/ CallIsWordpressSite
    \/ SetDebugMode
    \/ CallBuildCleanArticleHtml
    \/ CallProcessWordpressHtml
    \/ CallEnhanceContentImages
    \/ CallExtractAdvanced
    \/ CallPrepareHtmlForBetterLayout
    \/ CallGetAllReports
    \/ CallProcessAllReportsOnStart

HelperSpec == HelperInit /\ [][HelperNext]_vars

(***************************************************************************)
(* Calls of convert_html_to_pdf and _extract_direct running at the same    *)
(* time in one process and one temporary directory: only their steps on    *)
(* temporary files.  tempfile hands out a name it has never handed out     *)
(***************************************************************************)
MaxWorkers == 2

Workers == 1..MaxWorkers

Worker(kind, wpc, temp_path, html_path, out_path) ==
    [kind |-> kind, pc |-> wpc, temp_path |-> temp_path,
     temp_html_path |-> html_path, pdf_path |-> out_path]

Op(path, w, what) == [path |-> path, worker |-> w, op |-> what]

\* tempfile.NamedTemporaryFile(delete=False).name
NewTempPathFixed(used) == 1

NewTempPath(used) == used + 1

\* os.unlink when the path is set and exists, as both cleanup helpers do
Unlinked(paths) == {q \in paths : q # NoPath /\ q \in tmpdir}

\* _extract_direct: with tempfile.NamedTemporaryFile(...) as temp_file
DirectCreate ==
    \E w \in DOMAIN workers :
        /\ workers[w].kind = "direct" /\ workers[w].pc = "start"
        /\ \/ /\ workers' = [workers EXCEPT ![w].pc = "cleanup"]
              /\ UNCHANGED <<tmpdir, names_used, ops>>
           \/ LET path == NewTempPath(names_used)
              IN  /\ workers' = [workers EXCEPT ![w].pc = "wget",
                                                ![w].temp_path = path]
                  /\ tmpdir' = tmpdir \cup {path}
                  /\ names_used' = names_used + 1
                  /\ ops' = ops \cup {Op(path, w, "create")}
        /\ UNCHANGED <<nvars, pvars, fvars>>

\* subprocess.run(wget ... -O temp_path url)
DirectWget ==
    \E w \in DOMAIN workers :
        /\ workers[w].kind = "direct" /\ workers[w].pc = "wget"
        /\ ops' = ops \cup {Op(workers[w].temp_path, w, "write")}
        /\ \E next \in {"cleanup", "read"} :
              workers' = [workers EXCEPT ![w].pc = next]
        /\ UNCHANGED <<nvars, pvars, fvars, tmpdir, names_used>>

\* os.path.getsize(temp_path) and open(temp_path).read()
DirectRead ==
    \E w \in DOMAIN workers :
        /\ workers[w].kind = "direct" /\ workers[w].pc = "read"
        /\ ops' = ops \cup {Op(workers[w].temp_path, w, "read")}
        /\ workers' = [workers EXCEPT ![w].pc = "cleanup"]
        /\ UNCHANGED <<nvars, pvars, fvars, tmpdir, names_used>>

\* self._cleanup_temp_file(temp_path) at lines 286, 295, 313, 317, and once
\* more at 343 when a later statement raises
DirectCleanup ==
    \E w \in DOMAIN workers :
        /\ workers[w].kind = "direct"
        /\ workers[w].pc \in {"cleanup", "cleanup_again"}
        /\ LET gone == Unlinked({workers[w].temp_path})
           IN  /\ tmpdir' = tmpdir \ gone
               /\ ops' = ops \cup {Op(q, w, "delete") : q \in gone}
        /\ \E next \in (IF workers[w].pc = "cleanup"
                        THEN {"done", "cleanup_again"} ELSE {"done"}) :
              workers' = [workers EXCEPT ![w].pc = next]
        /\ UNCHANGED <<nvars, pvars, fvars, names_used>>

\* convert_html_to_pdf: with tempfile.NamedTemporaryFile(suffix='.html',
\* delete=False) as temp_html: write, then temp_html_path = temp_html.name
ConvertWriteHtml ==
    \E w \in DOMAIN workers :
        /\ workers[w].kind = "convert" /\ workers[w].pc = "start"
        /\ \/ /\ workers' = [workers EXCEPT ![w].pc = "finally"]
              /\ UNCHANGED <<tmpdir, names_used, ops>>
           \/ LET path == NewTempPath(names_used)
              IN  /\ tmpdir' = tmpdir \cup {path}
                  /\ names_used' = names_used + 1
                  /\ \/ /\ workers' = [workers EXCEPT ![w].pc = "finally"]
                        /\ ops' = ops \cup {Op(path, w, "create")}
                     \/ /\ workers' = [workers EXCEPT
                                          ![w].pc = "create_pdf",
                                          ![w].temp_html_path = path]
                        /\ ops' = ops \cup {Op(path, w, "create"),
                                            Op(path, w, "write")}
        /\ UNCHANGED <<nvars, pvars, fvars>>

\* pdf_path = tempfile.NamedTemporaryFile(suffix='.pdf', delete=False).name
ConvertCreatePdf ==
    \E w \in DOMAIN workers :
        /\ workers[w].kind = "convert" /\ workers[w].pc = "create_pdf"
        /\ \/ /\ workers' = [workers EXCEPT ![w].pc = "finally"]
              /\ UNCHANGED <<tmpdir, names_used, ops>>
           \/ LET path == NewTempPath(names_used)
              IN  /\ workers' = [workers EXCEPT ![w].pc = "rasterize",
                                                ![w].pdf_path = path]
                  /\ tmpdir' = tmpdir \cup {path}
                  /\ names_used' = names_used + 1
                  /\ ops' = ops \cup {Op(path, w, "create")}
        /\ UNCHANGED <<nvars, pvars, fvars>>

\* subprocess.run(wkhtmltopdf ... temp_html_path pdf_path): the rasterizer
\* reads the one and writes, or removes, the other
ConvertRasterize ==
    \E w \in DOMAIN workers :
        /\ workers[w].kind = "convert" /\ workers[w].pc = "rasterize"
        /\ \E removed \in BOOLEAN :
              /\ tmpdir' = IF removed THEN tmpdir \ {workers[w].pdf_path}
                           ELSE tmpdir
              /\ ops' = ops \cup {Op(workers[w].temp_html_path, w, "read"),
                                  Op(workers[w].pdf_path, w,
                                     IF removed THEN "delete" ELSE "write")}
        /\ \E next \in {"finally", "check_output"} :
              workers' = [workers EXCEPT ![w].pc = next]
        /\ UNCHANGED <<nvars, pvars, fvars, names_used>>

\* os.path.exists(pdf_path) and getsize, then open(pdf_path, 'rb').read()
ConvertReadPdf ==
    \E w \in DOMAIN workers :
        /\ workers[w].kind = "convert" /\ workers[w].pc = "check_output"
        /\ ops' = IF workers[w].pdf_path \in tmpdir
                  THEN ops \cup {Op(workers[w].pdf_path, w, "read")}
                  ELSE ops
        /\ workers' = [workers EXCEPT ![w].pc = "finally"]
        /\ UNCHANGED <<nvars, pvars, fvars, tmpdir, names_used>>

\* finally: self._cleanup_temp_files([temp_html_path, pdf_path])
ConvertFinally ==
    \E w \in DOMAIN workers :
        /\ workers[w].kind = "convert" /\ workers[w].pc = "finally"
        /\ LET gone == Unlinked({workers[w].temp_html_path,
                                 workers[w].pdf_path})
           IN  /\ tmpdir' = tmpdir \ gone
               /\ ops' = ops \cup {Op(q, w, "delete") : q \in gone}
        /\ workers' = [workers EXCEPT ![w].pc = "done"]
        /\ UNCHANGED <<nvars, pvars, fvars, names_used>>

ConcurrentInit ==
    /\ PipelineInit
    /\ FnIdle
    /\ OthersIdle
    /\ workers \in [Workers ->
                      {Worker(k, "start", NoPath, NoPath, NoPath) :
                         k \in {"convert", "direct"}}]
    /\ tmpdir = {}
    /\ names_used = 0
    /\ ops = {}

ConcurrentNext ==
    \/ DirectCreate
    \/ DirectWget
    \/ DirectRead
    \/ DirectCleanup
    \/ ConvertWriteHtml
    \/ ConvertCreatePdf
    \/ ConvertRasterize
    \/ ConvertReadPdf
    \/ ConvertFinally

ConcurrentSpec == ConcurrentInit /\ [][ConcurrentNext]_vars

(***************************************************************************)
(* OpenCTIApi._execute_query_with_retry: one call, request by request      *)
(***************************************************************************)
\* what one requests.post and the decoding of its body end with
Response(code, body) == [kind |-> "response", code |-> code, body |-> body]
Raised(kind) == [kind |-> kind, code |-> 0, body |-> "none"]

PostOutcomes ==
    { Response(200, b) : b \in {"json", "json_errors", "undecodable"} }
      \cup { Response(c, "none") :
               c \in {400, 401, 404, 429, 500, 502, 503, 504} }
      \cup { Raised(k) : k \in {"Timeout", "ConnectionError", "Exception"} }

\* if response.status_code in [429, 502, 503, 504]
RetryStatusesWith500 == {429, 500, 502, 503, 504}

RetryStatuses == {429, 502, 503, 504}

\* while retry_count < self.max_retries
LoopGuardInclusive == retry_count <= max_retries

LoopGuard == retry_count < max_retries

\* the branches that end in "retry_count += 1"
Retried(o) ==
    \/ o.kind = "response" /\ o.code # 200 /\ o.code \in RetryStatuses
    \/ o.kind = "response" /\ o.code = 200 /\ o.body = "undecodable"
    \/ o.kind \in {"Timeout", "ConnectionError"}

\* the branches that end in "return response_json"
Answered(o) ==
    o.kind = "response" /\ o.code = 200 /\ o.body \in {"json", "json_errors"}

\* self._execute_query_with_retry(payload, headers)
CallExecuteQuery ==
    /\ qpc = "idle"
    /\ qpc' = "loop"
    /\ retry_count' = 0
    /\ UNCHANGED <<nonqvars, max_retries, sent, qret>>

\* requests.post answers 200 with a body that decodes: return response_json
RequestAnswered ==
    /\ qpc = "loop"
    /\ LoopGuard
    /\ \E o \in PostOutcomes :
          /\ Answered(o)
          /\ sent' = Append(sent, o)
          /\ qret' = o.body
    /\ qpc' = "returned"
    /\ UNCHANGED <<nonqvars, max_retries, retry_count>>

\* a status that is not retried, or an unexpected exception: return None
RequestGivenUp ==
    /\ qpc = "loop"
    /\ LoopGuard
    /\ \E o \in PostOutcomes :
          /\ ~Answered(o)
          /\ ~Retried(o)
          /\ sent' = Append(sent, o)
    /\ qret' = "None"
    /\ qpc' = "returned"
    /\ UNCHANGED <<nonqvars, max_retries, retry_count>>

\* retry_count += 1, then continue or fall through to the loop test
RequestRetried ==
    /\ qpc = "loop"
    /\ LoopGuard
    /\ \E o \in PostOutcomes :
          /\ Retried(o)
          /\ sent' = Append(sent, o)
    /\ retry_count' = retry_count + 1
    /\ UNCHANGED <<nonqvars, max_retries, qpc, qret>>

\* the loop test fails: "Failed after 3 retries", return None
RetriesExhausted ==
    /\ qpc = "loop"
    /\ ~LoopGuard
    /\ qret' = "None"
    /\ qpc' = "returned"
    /\ UNCHANGED <<nonqvars, max_retries, retry_count, sent>>

QueryInit ==
    /\ PipelineInit
    /\ FnIdle
    /\ TmpIdle
    /\ QueryIdle
    /\ UploadIdle
    /\ ProcessorIdle

QueryNext ==
    \/ CallExecuteQuery
    \/ RequestAnswered
    \/ RequestGivenUp
    \/ RequestRetried
    \/ RetriesExhausted

\* the thread that made the call keeps running it
QuerySpec == QueryInit /\ [][QueryNext]_vars /\ WF_vars(QueryNext)

(***************************************************************************)
(* FileOperations.upload_and_link_file, step by step; os.unlink succeeds   *)
(***************************************************************************)
\* calls of upload_and_link_file made on one instance
MaxUploads == 3

\* self.temp_files.remove(file_path)
RECURSIVE Remove(_, _)
Remove(list, x) ==
    IF list = << >> THEN << >>
    ELSE IF Head(list) = x THEN Tail(list)
    ELSE <<Head(list)>> \o Remove(Tail(list), x)

\* self.file_operations.upload_and_link_file(file_content, file_name, ...)
CallUploadAndLinkFile ==
    /\ upc = "idle"
    /\ ucalls < MaxUploads
    /\ ucalls' = ucalls + 1
    /\ upc' = "save"
    /\ utemp_path' = NoPath
    /\ ucreated' = NoPath
    /\ uoutcome' = "none"
    /\ uret' = "pending"
    /\ UNCHANGED <<nonuvars, temp_files, udisk, unames>>

\* _save_to_temp_file: NamedTemporaryFile raises, nothing is created
SaveCreateRaises ==
    /\ upc = "save"
    /\ uoutcome' = "create_raised"
    /\ uret' = "False"
    /\ upc' = "finally"
    /\ UNCHANGED <<nonuvars, temp_files, udisk, unames, ucalls, utemp_path,
                   ucreated>>

\* _save_to_temp_file: the file is created (delete=False), write raises,
\* the handler returns None
SaveWriteRaises ==
    /\ upc = "save"
    /\ unames' = unames + 1
    /\ udisk' = udisk \cup {unames + 1}
    /\ ucreated' = unames + 1
    /\ uoutcome' = "write_raised"
    /\ uret' = "False"
    /\ upc' = "finally"
    /\ UNCHANGED <<nonuvars, temp_files, ucalls, utemp_path>>

\* _save_to_temp_file returns the path of the written file
SaveOk ==
    /\ upc = "save"
    /\ unames' = unames + 1
    /\ udisk' = udisk \cup {unames + 1}
    /\ ucreated' = unames + 1
    /\ temp_files' = Append(temp_files, unames + 1)
    /\ utemp_path' = unames + 1
    /\ upc' = "upload"
    /\ UNCHANGED <<nonuvars, ucalls, uoutcome, uret>>

\* _upload_via_import_document returns True
UploadOk ==
    /\ upc = "upload"
    /\ uoutcome' = "uploaded"
    /\ uret' = "True"
    /\ upc' = "finally"
    /\ UNCHANGED <<nonuvars, temp_files, udisk, unames, ucalls, utemp_path,
                   ucreated>>

\* _upload_via_import_document returns False: status other than 200,
\* GraphQL errors, no importPush id, or an exception it caught
UploadFails ==
    /\ upc = "upload"
    /\ uoutcome' \in {"http_error", "graphql_error", "no_import_id",
                      "exception"}
    /\ uret' = "False"
    /\ upc' = "finally"
    /\ UNCHANGED <<nonuvars, temp_files, udisk, unames, ucalls, utemp_path,
                   ucreated>>

\* finally: self._cleanup_temp_file(temp_path)
UploadFinally ==
    /\ upc = "finally"
    /\ IF utemp_path # NoPath /\ utemp_path \in udisk
       THEN /\ udisk' = udisk \ {utemp_path}
            /\ temp_files' = Remove(temp_files, utemp_path)
       ELSE UNCHANGED <<udisk, temp_files>>
    /\ upc' = "returned"
    /\ UNCHANGED <<nonuvars, unames, ucalls, utemp_path, ucreated, uoutcome,
                   uret>>

\* the caller goes on
UploadReturn ==
    /\ upc = "returned"
    /\ upc' = "idle"
    /\ UNCHANGED <<nonuvars, temp_files, udisk, unames, ucalls, utemp_path,
                   ucreated, uoutcome, uret>>

UploadInit ==
    /\ PipelineInit
    /\ FnIdle
    /\ TmpIdle
    /\ QueryIdle
    /\ UploadIdle
    /\ ProcessorIdle

UploadNext ==
    \/ CallUploadAndLinkFile
    \/ SaveCreateRaises
    \/ SaveWriteRaises
    \/ SaveOk
    \/ UploadOk
    \/ UploadFails
    \/ UploadFinally
    \/ UploadReturn

UploadSpec == UploadInit /\ [][UploadNext]_vars

(***************************************************************************)
(* The connector's main loop (start, without the startup scan) and         *)
(* ReportProcessor.process_reports, one iteration of its loop per step     *)
(***************************************************************************)
\* get_latest_reports(limit=20): the newest reports by creation date
FETCH_LIMIT == 20

\* entries in a list answered by the alternative fetch methods
MaxList == 2

\* reports created on the platform at once
Bursts == {FETCH_LIMIT - 1, FETCH_LIMIT}

\* rank of a report in orderBy="created", orderMode="desc": report 2 was
\* created after report 1
Position(i) == newer + (3 - i)

InWindow(i) == Position(i) <= FETCH_LIMIT

\* the report as a fetch returns it now
Fetched(i) ==
    [id |-> i, label |-> i \in labelled, url |-> platform[i] # "no_url",
     types |-> IF platform[i] = "other_type" THEN "other" ELSE "target",
     description_null |-> platform[i] = "null_description",
     name_null |-> platform[i] = "null_name"]

\* _fetch_via_helper(limit): first=limit, newest first
LatestReports ==
    IF InWindow(1) THEN <<Fetched(2), Fetched(1)>>
    ELSE IF InWindow(2) THEN <<Fetched(2)>>
    ELSE << >>

RECURSIVE ListsUpTo(_)
ListsUpTo(n) ==
    IF n = 0 THEN {<< >>}
    ELSE LET shorter == ListsUpTo(n - 1)
         IN  shorter \cup { Append(l, Fetched(i)) :
                              l \in {x \in shorter : Len(x) = n - 1},
                              i \in ReportIds }

\* get_reports_alternative(limit): REST, direct API or custom GraphQL, in
\* whatever order and with whatever repetition the platform answers
AlternativeLists == ListsUpTo(MaxList)

Step(op, ok) == [op |-> op, ok |-> ok]

Raise == Step("raise", TRUE)

\* add_label_to_report, then processed_reports.add
LabelAndMarkAlways == { <<Step("label", l), Step("mark", TRUE)>> : l \in BOOLEAN }

LabelAndMarkOnlyIfLabelled ==
    { <<Step("label", TRUE), Step("mark", TRUE)>>, <<Step("label", FALSE), Raise>> }

LabelAndMark == LabelAndMarkAlways

\* process_report(report, report_types, url): the steps one call can take,
\* each with its outcome; "raise" is an exception caught at line 280
ProcessReportRuns(report) ==
    { <<Step("extract", FALSE)>> \o t : t \in LabelAndMark }
    \cup
    (IF report.description_null
     THEN { <<Step("extract", TRUE), Raise>> }
     ELSE { <<Step("extract", TRUE), Step("update", u), Step("convert", FALSE)>> \o t :
              u \in BOOLEAN, t \in LabelAndMark }
          \cup
          (IF report.name_null
           THEN { <<Step("extract", TRUE), Step("update", u), Step("convert", TRUE),
                    Raise>> : u \in BOOLEAN }
           ELSE { <<Step("extract", TRUE), Step("update", u), Step("convert", TRUE),
                    Step("upload", p)>> \o t :
                    u \in BOOLEAN, p \in BOOLEAN, t \in LabelAndMark }))

Has(run, step) == \E k \in 1..Len(run) : run[k] = step

\* the call reached processed_reports.add and return True
MarksEvenWhenRaised(run) == Len(run) > 0

Marks(run) == Has(run, Step("mark", TRUE))

\* the platform accepted the label
Labels(run) == Has(run, Step("label", TRUE))

\* while True: get_latest_reports(limit=20) answers a non-empty list
CycleFetchLatest ==
    /\ cpc = "fetch"
    /\ LatestReports # << >>
    /\ reports' = LatestReports
    /\ ri' = 0
    /\ last' = NoIteration
    /\ cpc' = "process"
    /\ UNCHANGED <<nonrvars, process_all_reports, processed_reports, platform,
                   labelled, newer, successes>>

\* the primary fetch answers nothing or fails, get_reports_alternative is
\* tried
CycleFetchAlternative ==
    /\ cpc = "fetch"
    /\ \E l \in AlternativeLists :
          /\ reports' = l
          /\ cpc' = IF l = << >> THEN "sleep" ELSE "process"
    /\ ri' = 0
    /\ last' = NoIteration
    /\ UNCHANGED <<nonrvars, process_all_reports, processed_reports, platform,
                   labelled, newer, successes>>

\* an exception in the body of the loop, before process_reports: an entry
\* of the fetched list that is no dict (line 258)
CycleRaises ==
    /\ cpc = "fetch"
    /\ cpc' = "error_sleep"
    /\ reports' = << >>
    /\ ri' = 0
    /\ last' = NoIteration
    /\ UNCHANGED <<nonrvars, process_all_reports, processed_reports, platform,
                   labelled, newer, successes>>

\* one iteration of the loop of process_reports
ProcessOneReport ==
    /\ cpc = "process"
    /\ ri < Len(reports)
    /\ LET report == reports[ri + 1]
       IN  IF ~IsReportProcessable(report, processed_reports, process_all_reports)
           THEN /\ last' = [id |-> report.id, invoked |-> FALSE, steps |-> << >>,
                            ret |-> "none"]
                /\ processed_reports' = ProcessedAfterCheck(report, processed_reports)
                /\ UNCHANGED <<labelled, successes>>
           ELSE \E run \in ProcessReportRuns(report) :
                  /\ last' = [id |-> report.id, invoked |-> TRUE, steps |-> run,
                              ret |-> IF Marks(run) THEN "True" ELSE "False"]
                  /\ processed_reports' =
                        IF Marks(run) THEN processed_reports \cup {report.id}
                        ELSE processed_reports
                  /\ labelled' =
                        IF Labels(run) THEN labelled \cup {report.id} ELSE labelled
                  /\ successes' =
                        IF Marks(run)
                        THEN [successes EXCEPT ![report.id] = IF @ < 2 THEN @ + 1 ELSE @]
                        ELSE successes
    /\ ri' = ri + 1
    /\ UNCHANGED <<nonrvars, process_all_reports, platform, newer, cpc, reports>>

\* process_reports returns, the cycle is complete
ProcessReportsReturn ==
    /\ cpc = "process"
    /\ ri = Len(reports)
    /\ cpc' = "sleep"
    /\ reports' = << >>
    /\ ri' = 0
    /\ last' = NoIteration
    /\ UNCHANGED <<nonrvars, process_all_reports, processed_reports, platform,
                   labelled, newer, successes>>

\* time.sleep(wait_seconds), then the next turn of while True
Sleep ==
    /\ cpc = "sleep"
    /\ cpc' = "fetch"
    /\ UNCHANGED <<nonrvars, process_all_reports, processed_reports, platform,
                   labelled, newer, reports, ri, last, successes>>

\* an except clause that leaves the loop
SleepAfterErrorThenExit ==
    /\ cpc = "error_sleep"
    /\ cpc' = "idle"
    /\ UNCHANGED <<nonrvars, process_all_reports, processed_reports, platform,
                   labelled, newer, reports, ri, last, successes>>

\* time.sleep(60) in the except clause, then the next turn of while True
SleepAfterError ==
    /\ cpc = "error_sleep"
    /\ cpc' = "fetch"
    /\ UNCHANGED <<nonrvars, process_all_reports, processed_reports, platform,
                   labelled, newer, reports, ri, last, successes>>

\* the platform: other connectors create reports
ReportsCreated ==
    /\ cpc # "idle"
    /\ newer < FETCH_LIMIT
    /\ \E b \in Bursts :
          newer' = IF newer + b < FETCH_LIMIT THEN newer + b ELSE FETCH_LIMIT
    /\ UNCHANGED <<nonrvars, process_all_reports, processed_reports, platform,
                   labelled, cpc, reports, ri, last, successes>>

\* the connector started with PROCESS_ALL_REPORTS off, the configuration in
\* which the type filter acts; report 2 may carry the label of an earlier run
ProcessorInit ==
    /\ PipelineInit
    /\ FnIdle
    /\ TmpIdle
    /\ QueryIdle
    /\ UploadIdle
    /\ process_all_reports = FALSE
    /\ processed_reports = {}
    /\ platform \in [ReportIds -> ReportKinds]
    /\ labelled \in {{}, {2}}
    /\ newer = 0
    /\ cpc = "fetch"
    /\ reports = << >>
    /\ ri = 0
    /\ last = NoIteration
    /\ successes = [i \in ReportIds |-> 0]

MainLoop ==
    \/ CycleFetchLatest
    \/ CycleFetchAlternative
    \/ CycleRaises
    \/ ProcessOneReport
    \/ ProcessReportsReturn
    \/ Sleep
    \/ SleepAfterError

ProcessorNext ==
    \/ MainLoop
    \/ ReportsCreated

ProcessorSpec == ProcessorInit /\ [][ProcessorNext]_vars

\* the connector's thread keeps running, and a platform that can answer
\* the primary fetch does so again and again
ProcessorLiveSpec ==
    ProcessorSpec /\ WF_vars(MainLoop) /\ SF_vars(CycleFetchLatest)

(***************************************************************************)
(* Properties.  The validity of a result and the verdict of the quality    *)
(* gate are restated here from the specification, not taken from the       *)
(* operators above.                                                        *)
(***************************************************************************)
\* text is non-null and its trimmed length exceeds 100
SpecValid(r) == ~r.none /\ ~r.text.null /\ r.text.core > 100

Ladder == <<"standard", "direct_wget", "advanced">>

\* C1: extract_article invokes standard, direct_wget, advanced in that
\* order, each at most once; a technique is invoked only after the one
\* before it returned an invalid result; a valid result ends the ladder and
\* is returned with extraction_method set to the technique's name.
C1_LadderOrder ==
    [][ /\ (invoked' # invoked /\ invoked' # << >>) =>
              /\ epc = "attempt"
              /\ invoked' = SubSeq(Ladder, 1, Len(invoked) + 1)
              /\ (Len(invoked) > 0 => ~SpecValid(result))
        /\ (epc = "validate" /\ SpecValid(result)) =>
              /\ epc' = "returned"
              /\ invoked' = invoked
              /\ eret' = [result EXCEPT
                            !.extraction_method = Ladder[Len(invoked)]]
      ]_vars

C1_Witness ==
    /\ epc = "returned"
    /\ invoked = <<"standard", "direct_wget">>
    /\ eret.extraction_method = "direct_wget"
    /\ SpecValid(eret)

\* C2: extract_article returns None or a result whose text is non-null
\* with a trimmed length above 100.
C2_ReturnedTextLongEnough ==
    epc = "returned" => (eret.none \/ SpecValid(eret))

C2_Witness ==
    /\ epc = "returned"
    /\ ~eret.none
    /\ eret.text.lead > 0

\* C3: when all three techniques return invalid results extract_article
\* returns None, having tried all three, and no exception leaves it.
C3_AllInvalidReturnsNone ==
    /\ result.exc # "escaped"
    /\ (epc = "returned" /\ invoked = Ladder /\ ~SpecValid(result)) => eret.none
    /\ (epc = "returned" /\ eret.none) => (invoked = Ladder /\ ~SpecValid(result))

C3_Witness ==
    /\ epc = "returned"
    /\ eret.none
    /\ invoked = Ladder
    /\ result.error = "Failed with status code"

\* C4: an exception raised inside a technique is caught there and becomes
\* an invalid result; it does not reach extract_article's caller and the
\* next technique of the ladder is invoked after it.
C4_ExceptionsStayInside ==
    [][ /\ result'.exc # "escaped"
        /\ (epc = "validate" /\ result.exc = "caught") =>
              /\ ~SpecValid(result)
              /\ (Len(invoked) < 3 =>
                    epc' = "attempt" /\ idx' = Len(invoked) + 1)
              /\ (Len(invoked) = 3 => epc' = "returned" /\ eret'.none)
        /\ (epc = "attempt" /\ epc' # epc) =>
              (epc' = "validate" /\ invoked' = Append(invoked, Ladder[idx]))
      ]_vars

C4_Witness ==
    /\ epc = "validate"
    /\ invoked = Ladder
    /\ result.exc = "caught"

\* C5: convert_html_to_pdf returns bytes only when the rasterizer exited
\* with code 0 within the timeout and the output file exists and is not
\* empty, and the bytes are that file's content; in every other case it
\* returns None.
C5_BytesOnlyFromCompleteOutput ==
    /\ (pc = "finally" /\ ~ret.none) =>
          /\ process.exit = "0"
          /\ pdf_path \in DOMAIN files
          /\ files[pdf_path] # EmptyFile
          /\ ret.bytes = files[pdf_path]
    /\ (pc \in {"finally", "returned"} /\ ~ret.none) =>
          /\ process.exit = "0"
          /\ ~process.removed
          /\ ret.bytes = process.wrote
          /\ ret.bytes.kind = "pdf"
    /\ (pc \in {"finally", "returned"}
          /\ (process.exit # "0" \/ process.removed \/ process.wrote = EmptyFile))
          => ret.none

C5_Witness ==
    /\ pc = "finally"
    /\ ~ret.none
    /\ ret.bytes = Pdf(2)

\* C6: every temporary file a convert_html_to_pdf call created is deleted
\* when the call returns, on every exit path.
C6_TempFilesDeleted ==
    pc = "returned" => created \cap DOMAIN files = {}

Called(name) == \E i \in 1..Len(calls) : calls[i] = name

\* C7: when the classifier flags a templated blog, the rebuild is applied
\* before any other transform and the strategy is extract for the rest of
\* the call, whatever the caller requested.
C7_TemplatedBlogForcesExtract ==
    (pc \notin {"idle", "classify"} /\ ~page.null /\ page.sigs # {}) =>
        /\ ad_removal_strategy = "extract"
        /\ Len(calls) >= 2
        /\ calls[1] = "_is_wordpress_site"
        /\ calls[2] = "_process_wordpress_html"
        /\ \A i \in 3..Len(calls) : calls[i] # "_process_wordpress_html"

C7_Witness ==
    /\ pc = "rasterize"
    /\ page.sigs # {}
    /\ requested = "minimal"
    /\ html_content.rebuilt

\* C8 as stated: for a templated blog with strategy=minimal requested the
\* HTML handed to the rasterizer is never the minimal transform's output.
C8_NeverMinimalForTemplatedBlog ==
    (pc = "rasterize" /\ page.sigs # {} /\ requested = "minimal") =>
        files[temp_html_path].kind = "extract"

\* C8 amended: for a templated blog with strategy=minimal requested, the
\* rebuild runs first and the extractor is invoked; the HTML handed to the
\* rasterizer is the extract transform's output exactly when the extractor
\* returned an article, and otherwise the minimal transform's output on
\* the rebuilt page.
C8_ExtractUnlessExtractorFails ==
    (pc = "rasterize" /\ page.sigs # {} /\ requested = "minimal") =>
        LET d == files[temp_html_path]
        IN  /\ calls[2] = "_process_wordpress_html"
            /\ Called("extract_article")
            /\ d.kind \in {"extract", "minimal"}
            /\ (d.kind = "extract") <=> SpecValid(article_data)
            /\ (d.kind = "extract") =>
                  /\ d.text = article_data.text
                  /\ d.method = article_data.extraction_method
            /\ (d.kind = "minimal") =>
                  /\ article_data.none
                  /\ d.rebuilt = html_content.rebuilt
                  /\ d.protected = html_content.protected

C8_Witness ==
    /\ pc = "rasterize"
    /\ page.sigs # {}
    /\ requested = "minimal"
    /\ files[temp_html_path].kind = "minimal"
    /\ files[temp_html_path].rebuilt

\* density at least 5%, a content container, at most 500,000 characters
SpecGateOk(d) ==
    /\ 20 * d.alnum >= (IF d.len > 1 THEN d.len ELSE 1)
    /\ d.container
    /\ d.len <= 500000

\* C9 as stated: with strategy=minimal in effect, a minimal output that
\* the quality gate rejects is never handed to the rasterizer.
C9_RejectedMinimalNeverRendered ==
    (pc = "rasterize" /\ ad_removal_strategy = "minimal") =>
        LET d == files[temp_html_path]
        IN  d.kind = "minimal" => SpecGateOk(d)

\* C9 amended: with strategy=minimal in effect the extractor is invoked
\* exactly when the quality gate rejects the minimal output; the HTML
\* handed to the rasterizer is then the extract transform's output when the
\* extractor returned an article, and the rejected minimal output when it
\* returned nothing.
C9_ExtractWhenGateRejectsAndArticle ==
    (pc = "rasterize" /\ ad_removal_strategy = "minimal") =>
        LET d == files[temp_html_path]
        IN  /\ d.kind \in {"extract", "minimal"}
            /\ Called("extract_article") <=>
                  (d.kind = "extract" \/ ~SpecGateOk(d))
            /\ (d.kind = "extract") <=> SpecValid(article_data)
            /\ (d.kind = "extract") => d.text = article_data.text
            /\ (d.kind = "minimal" /\ ~SpecGateOk(d)) => article_data.none

C9_Witness ==
    /\ pc = "rasterize"
    /\ ad_removal_strategy = "minimal"
    /\ requested = "minimal"
    /\ files[temp_html_path].kind = "extract"
    /\ Called("_is_valid_processed_html")

\* the extract strategy is in effect and the extractor returned nothing
ExtractFailed ==
    /\ ad_removal_strategy = "extract"
    /\ Called("extract_article")
    /\ pc \notin {"idle", "extract_wait"}
    /\ article_data.none

\* C10 as stated: when the strategy is extract and the extractor returns
\* no usable article, the call returns None without invoking the rasterizer.
C10_ExtractFailureReturnsNone ==
    ExtractFailed =>
        /\ ~Called("wkhtmltopdf")
        /\ pc # "rasterize"
        /\ (pc = "returned" => ret.none)

\* C10 amended: a rasterizer failure, a timeout, a missing or empty output
\* file and an exception in a temporary-file step or in the classifier make
\* the call return None; when the strategy is extract and the extractor
\* returns no usable article the call does not stop: it prepares the page
\* with the minimal transform and goes on to the rasterizer.
C10_FailuresReturnNoneExtractFallsBack ==
    /\ (pc = "returned" /\ ~(process.exit = "0" /\ process.wrote.kind = "pdf"))
          => ret.none
    /\ (pc = "returned" /\ (temp_html_path = NoPath \/ pdf_path = NoPath))
          => ret.none
    /\ ExtractFailed =>
          /\ cleaned_html.kind = "minimal"
          /\ Called("_selective_layout_cleaning")
          /\ pc \in {"inject", "runtime_dir", "write_html", "create_pdf",
                     "rasterize", "check_output", "finally", "returned"}
          /\ (pc = "returned" /\ ~Called("wkhtmltopdf")) =>
                (temp_html_path = NoPath \/ pdf_path = NoPath)

C10_Witness ==
    /\ pc = "returned"
    /\ ExtractFailed
    /\ Called("wkhtmltopdf")
    /\ ~ret.none

ConvertPcs ==
    {"idle", "classify", "resolve", "images", "transform", "extract_wait",
     "gate", "fallback_wait", "inject", "runtime_dir", "write_html",
     "create_pdf", "rasterize", "check_output", "finally", "returned"}

Started(name) ==
    /\ Len(calls') > Len(calls)
    /\ \E i \in (Len(calls) + 1)..Len(calls') : calls'[i] = name

StrategyEnum == {"extract", "minimal", "auto"}

\* C12 as stated: when any rendering transform starts (templated-blog
\* rebuild, image protection, minimal or extract) the strategy variable
\* holds extract or minimal, never auto.
C12_ConcreteAtEveryTransform ==
    [][ (/\ requested \in StrategyEnum
         /\ \E n \in {"_process_wordpress_html", "_enhance_content_images",
                      "_selective_layout_cleaning", "extract_article",
                      "_build_clean_article_html"} : Started(n))
          => ad_removal_strategy \in {"extract", "minimal"}
      ]_vars

\* C12 amended: when image protection, the minimal transform or the
\* extract transform starts, the strategy variable holds extract or
\* minimal and never auto; the templated-blog rebuild starts while the
\* variable still holds the value the caller passed (auto included) and
\* the variable is set to extract right after it.
C12_ConcreteAfterClassification ==
    [][ /\ (/\ requested \in StrategyEnum
            /\ \E n \in {"_enhance_content_images",
                         "_selective_layout_cleaning", "extract_article",
                         "_build_clean_article_html"} : Started(n))
             => ad_removal_strategy \in {"extract", "minimal"}
        /\ Started("_process_wordpress_html") =>
              /\ ad_removal_strategy = requested
              /\ ad_removal_strategy' = "extract"
      ]_vars

C12_Witness ==
    /\ pc = "transform"
    /\ requested = "auto"
    /\ ad_removal_strategy = "minimal"
    /\ Called("_determine_best_strategy")
    /\ Called("_enhance_content_images")

\* C15: after the injection step the document holds the layout-repair
\* stylesheet exactly once, and a second run of the step on its own output
\* adds nothing, also for a document with several </head> occurrences.
C15_InjectedOnceAndIdempotent ==
    pc = "runtime_dir" =>
        /\ cleaned_html.heads > 0 => cleaned_html.css = 1
        /\ InjectLayoutRepairCss(cleaned_html) = cleaned_html

Returned(name) == fn = name /\ hist # << >>

\* C13: _determine_best_strategy returns extract for a templated blog;
\* otherwise extract exactly when (complex layout and deep nesting) or the
\* domain is on the deny-list, and minimal in every other case; complex
\* layout is a grid or flex declaration, more than 100 div tags or more
\* than 15 script tags; deep nesting is at least two of the families div,
\* section, article occurring more than 50 times each.
C13_StrategyChoice ==
    Returned("_determine_best_strategy") =>
        LET templated == arg.sigs # {}
            complex == arg.layoutDecl \/ arg.divs >= 101 \/ arg.scripts >= 16
            deep == \/ arg.divs >= 51 /\ arg.sections >= 51
                    \/ arg.divs >= 51 /\ arg.articles >= 51
                    \/ arg.sections >= 51 /\ arg.articles >= 51
        IN  /\ out \in {"extract", "minimal"}
            /\ templated => out = "extract"
            /\ ~templated =>
                  (out = "extract" <=> ((complex /\ deep) \/ arg.denied))

C13_Witness ==
    /\ Returned("_determine_best_strategy")
    /\ arg.sigs = {}
    /\ ~arg.denied
    /\ ~arg.layoutDecl
    /\ arg.divs = 101
    /\ arg.sections = 51
    /\ arg.articles = 50
    /\ arg.scripts = 15
    /\ out = "extract"

\* C14: the quality gate accepts a processed HTML exactly when its
\* alphanumeric density is at least 5%, it holds a content-container
\* marker and its size is at most 500,000; exactly 5% and exactly 500,000
\* are accepted, and failing any single check rejects.
C14_GateAccepts ==
    Returned("_is_valid_processed_html") =>
        /\ out <=> SpecGateOk(arg)
        /\ (/\ arg.container
            /\ arg.len > 0
            /\ 20 * arg.alnum = arg.len
            /\ arg.len <= 500000) => out
        /\ (arg.container /\ arg.len = 500000 /\ 20 * arg.alnum >= arg.len)
              => out
        /\ (~arg.container \/ arg.len >= 500001 \/ 20 * arg.alnum < arg.len)
              => ~out

C14_Witness ==
    /\ Returned("_is_valid_processed_html")
    /\ arg.len = 500000
    /\ arg.alnum = 25000
    /\ arg.container
    /\ out

SpecSelectors(theme) ==
    {"article.post", "article .entry-content", ".post-content",
     ".post .entry-content", ".the-content", "#content .post",
     ".entry-content", "article", ".post", ".content", "main",
     ".main-content", "#primary", ".site-content article"}
      \cup (IF theme = "twentytwenty" THEN {"article .entry"}
            ELSE IF theme = "astra"
            THEN {".content-area", ".ast-article-single"}
            ELSE {})

\* C19: _process_wordpress_html returns its input unmodified whenever no
\* main-content selector (the theme-specific ones included) matches an
\* element, and whenever parsing or processing raises; it returns a
\* rebuilt document only when a main-content region was found.
C19_NoMainContentIsNoOp ==
    Returned("_process_wordpress_html") =>
        /\ arg.matched \cap SpecSelectors(arg.theme) = {} => out = arg.html
        /\ arg.parse_raises => out = arg.html
        /\ arg.build_raises => out = arg.html
        /\ (debug_mode = "absent" /\ arg.removal_raises) => out = arg.html
        /\ out # arg.html =>
              /\ out.rebuilt
              /\ out.id = arg.html.id
              /\ out.main \in arg.matched \cap SpecSelectors(arg.theme)

C19_Witness ==
    /\ Returned("_process_wordpress_html")
    /\ ~arg.parse_raises
    /\ ~arg.removal_raises
    /\ arg.raising = {}
    /\ arg.theme = "twentytwenty"
    /\ arg.matched = {".content-area"}
    /\ out = arg.html

\* C20 as stated: after the image-protection pass an image carries the
\* protective class and style exactly when it lies inside a candidate
\* content region, its width attribute is absent or at least 50, and
\* neither its class nor its source is ad/banner/icon/logo-named.
C20_TaggedIffContentImage ==
    Returned("_enhance_content_images") =>
        \A i \in DOMAIN arg.imgs :
            LET img == arg.imgs[i]
            IN  out[i] >= 1 <=>
                  /\ img.regions # << >>
                  /\ ~img.width.present \/ img.width.value >= 50
                  /\ img.class.named = {}
                  /\ img.src.named = {}

\* C20 amended: the pass tags nothing when the HTML cannot be parsed;
\* otherwise an image carries the protective class and style exactly when
\* it lies inside a candidate content region, its width attribute is
\* absent, empty, not all digits (such as 30px) or at least 50, and neither
\* its lowercase class nor its lowercase source contains ad, banner, icon
\* or logo as a substring; of a 30-wide image classed icon and an 800-wide
\* image inside an article only the second is tagged.
C20_TaggedIffParsedAndNotSkipped ==
    Returned("_enhance_content_images") =>
        /\ \A i \in DOMAIN arg.imgs :
              LET img == arg.imgs[i]
              IN  out[i] >= 1 <=>
                    /\ arg.parses
                    /\ img.regions # << >>
                    /\ \/ ~img.width.present
                       \/ ~img.width.isdigit
                       \/ img.width.value >= 50
                    /\ (img.class.terms \cup img.src.terms)
                          \cap {"ad", "banner", "icon", "logo"} = {}
        /\ (arg.parses /\ arg.imgs = <<IconImage, ArticleImage>>) =>
              (out[1] = 0 /\ out[2] = 1)

C20_Witness ==
    /\ Returned("_enhance_content_images")
    /\ arg.parses
    /\ arg.imgs = <<IconImage, ArticleImage>>
    /\ out = <<0, 1>>

C22_EnvironmentRestored ==
    (pc = "returned" \/ epc = "returned") =>
        /\ environ.XDG_RUNTIME_DIR = "unset"
        /\ environ.QT_LOGGING_RULES = "unset"

\* C23: for any interleaving of concurrent convert_html_to_pdf and
\* _extract_direct calls each temporary path is owned by exactly one call:
\* no two calls create, write, read or delete the same path, and a call's
\* cleanup deletes only paths that call created.
C23_PathsExclusivelyOwned ==
    /\ \A a, b \in ops : a.path = b.path => a.worker = b.worker
    /\ \A a \in ops : a.path # NoPath
    /\ \A a \in ops :
          a.op = "delete" => Op(a.path, a.worker, "create") \in ops

C23_Witness ==
    /\ workers # << >>
    /\ workers[1].kind = "convert" /\ workers[1].pc = "done"
    /\ workers[2].kind = "direct" /\ workers[2].pc = "done"
    /\ \E a, b \in ops :
          /\ a.worker = 1 /\ a.op = "delete"
          /\ b.worker = 2 /\ b.op = "delete"
          /\ a.path > b.path
    /\ tmpdir = {}

\* the step of convert_html_to_pdf a collaborator belongs to
StepOf(name) ==
    CASE name \in {"_is_wordpress_site", "_process_wordpress_html"} -> 1
      [] name = "_determine_best_strategy" -> 2
      [] name = "_enhance_content_images" -> 3
      [] name \in {"extract_article", "_build_clean_article_html",
                   "_selective_layout_cleaning",
                   "_prepare_html_for_better_layout",
                   "_is_valid_processed_html"} -> 4
      [] name = "write_html" -> 6
      [] name = "wkhtmltopdf" -> 7

Count(name) == Cardinality({i \in 1..Len(calls) : calls[i] = name})

C25_StrategyEvaluatedOnceForAuto ==
    /\ Count("_determine_best_strategy") <= 1
    /\ Called("_determine_best_strategy") =>
          (requested = "auto" /\ ~Called("_process_wordpress_html"))
    /\ requested \in {"extract", "minimal"} =>
          ~Called("_determine_best_strategy")
    /\ (/\ pc \in {"images", "transform", "gate", "inject", "rasterize"}
        /\ requested = "auto"
        /\ ~Called("_process_wordpress_html")) =>
          Count("_determine_best_strategy") = 1

C25_Witness ==
    /\ pc = "rasterize"
    /\ requested = "auto"
    /\ Count("_determine_best_strategy") = 1
    /\ ad_removal_strategy = "minimal"

\* how many times a step occurs in the trace of the last call
Times(step) ==
    Cardinality({i \in DOMAIN out.trace : out.trace[i] = step})

\* C26 as stated: in the advanced technique the target URL is requested
\* exactly once per invocation, after the homepage visit has completed or
\* failed; a non-200 status yields an invalid result with no retry and no
\* parse.
C26_TargetRequestedExactlyOnce ==
    Returned("_extract_advanced") =>
        /\ Times("target") = 1
        /\ arg.step = "status_not_200" =>
              (Times("parse") = 0 /\ ~SpecValid(out.result))

\* C26 amended: the target URL is requested at most once per invocation,
\* and exactly once, right after the homepage visit has completed or
\* failed, whenever URL parsing and session setup did not raise; when they
\* raise, no request is made at all.  A homepage error is swallowed and the
\* target request is still issued; a non-200 status on the target request
\* yields an invalid result with no retry and no parse.
C26_TargetRequestedOnceAfterSetup ==
    Returned("_extract_advanced") =>
        /\ Times("target") <= 1
        /\ Times("target") = 1 <=> arg.step # "urlparse_raises"
        /\ arg.step = "urlparse_raises" =>
              (Times("homepage") = 0 /\ ~SpecValid(out.result))
        /\ \A i \in DOMAIN out.trace :
              out.trace[i] = "target" => (i > 1 /\ out.trace[i - 1] = "homepage")
        /\ (arg.homepage = "raises" /\ arg.step # "urlparse_raises") =>
              Times("target") = 1
        /\ arg.step = "status_not_200" =>
              /\ Times("target") = 1
              /\ Times("parse") = 0
              /\ ~SpecValid(out.result)

C26_Witness ==
    /\ Returned("_extract_advanced")
    /\ arg.homepage = "raises"
    /\ arg.step = "status_not_200"
    /\ out.trace = <<"setup", "homepage", "target">>
    /\ out.result.error = "Failed with status code"

\* C27: the content-sufficiency check is the same in the three techniques
\* and in the ladder: whatever text was parsed, a text of trimmed length
\* exactly 100 included, a technique reports success (a full result with
\* no error) exactly when the ladder accepts its result.
C27_TechniqueSuccessIffLadderAccepts ==
    (epc = "validate" /\ invoked # << >>) =>
        ((result.full /\ result.error = "None") <=> SpecValid(result))

\* C28: _is_wordpress_site returns true iff at least one check of its
\* ordered battery matches; the checks are evaluated in order, the first
\* match returns true with no later check evaluated, and false is
\* returned only after all eleven checks were evaluated without a match.
C28_FirstMatchDecides ==
    (fn = "_is_wordpress_site") =>
        \A i \in 1..Len(hist) :
            LET p == hist[i].arg
                ev == hist[i].evaluated
                matching == p.sigs \cap WpChecks
            IN  ~p.null =>
                  /\ (hist[i].out = "True") <=> (matching # {})
                  /\ hist[i].out \in {"True", "False"}
                  /\ \A k \in 1..Len(ev) : ev[k] = k
                  /\ (hist[i].out = "True") =>
                        /\ ev[Len(ev)] \in matching
                        /\ \A k \in 1..(Len(ev) - 1) : ev[k] \notin matching
                  /\ (hist[i].out = "False") => Len(ev) = 11

\* a call on a page where a check matches and a later check would match too
C28_Witness ==
    /\ fn = "_is_wordpress_site"
    /\ hist # << >>
    /\ hist[1].out = "True"
    /\ Cardinality(hist[1].arg.sigs) = 2
    /\ Len(hist[1].evaluated) < 11

\* C29: for every non-empty input HTML and non-empty source URL, whatever
\* html, head and body tags the input has or lacks, the document returned
\* by _prepare_html_for_better_layout has an html/head/body wrapper, a
\* base tag built from the URL's origin, the PDF stylesheet and the
\* "Source: <url>" footer before </body>.
C29_ShapeNormalisedForEveryInput ==
    (Returned("_prepare_html_for_better_layout")
        /\ ~arg.empty /\ arg.url = "ok") =>
        /\ out.html_el /\ out.head_el /\ out.body_el
        /\ out.base_url_tag
        /\ out.pdf_css
        /\ out.footer

\* the img elements of a body: the runs that hold the start of one (a later
\* insertion may cut an earlier element in two)
ImagesIn(content) ==
    { i \in DOMAIN content :
        content[i].src[1] = "img" /\ content[i].from = 1 }

\* C30: _build_clean_article_html inserts at most 5 content images
\* whatever the length of the images list, never inserts an image equal to
\* the top image, emits no image element at all when include_images is
\* false, and every insertion offset lies between 0 and the length of the
\* body string at the time of the insertion.
C30_ImagesBoundedAndPlaced ==
    (fn = "_build_clean_article_html") =>
        \A i \in 1..Len(hist) :
            LET a == hist[i].arg
                o == hist[i].out
            IN  /\ Cardinality(ImagesIn(o.content)) <= 5
                /\ a.top_image # NoImage =>
                      \A k \in ImagesIn(o.content) :
                          o.content[k].src[2] # a.top_image
                /\ ~a.include_images =>
                      (o.main_image = NoImage /\ ImagesIn(o.content) = {})
                /\ \A k \in 1..Len(o.offsets) :
                      o.offsets[k].pos \in 0..o.offsets[k].len

\* C31: in the HTML built by _build_clean_article_html no image URL appears
\* in more than one inserted content image: duplicates in the images list,
\* absolute or relative (resolved against the source URL), yield each
\* distinct resolved image at most once.
C31_EachResolvedImageOnce ==
    (fn = "_build_clean_article_html") =>
        \A i \in 1..Len(hist) :
            LET c == hist[i].out.content
            IN  \A j, k \in ImagesIn(c) :
                    (c[j].src[2] = c[k].src[2]) => (j = k)

Transient(o) ==
    \/ o.kind = "response" /\ o.code \in {429, 502, 503, 504}
    \/ o.kind = "response" /\ o.code = 200 /\ o.body = "undecodable"
    \/ o.kind \in {"Timeout", "ConnectionError"}

\* C36: _execute_query_with_retry always terminates and sends at most
\* max_retries (3) HTTP requests per call: every loop iteration either
\* returns or increments retry_count, and when the attempts are exhausted
\* the call returns None.
C36_TerminatesWithinThreeRequests ==
    /\ [](Len(sent) <= 3)
    /\ [][(sent' # sent) =>
             (qpc' = "returned" \/ retry_count' = retry_count + 1)]_vars
    /\ []((qpc = "returned" /\ Len(sent) = 3 /\ Transient(sent[3]))
             => qret = "None")
    /\ <>(qpc = "returned")

\* three requests were sent, none of them answered
C36_Witness ==
    /\ qpc = "returned"
    /\ Len(sent) = 3
    /\ Transient(sent[3])

\* C37: only transient failures are retried: a status other than 200 that
\* is not 429, 502, 503 or 504, and an unexpected exception, return None
\* after that single request; a 429/502/503/504 status, a timeout, a
\* connection error and an undecodable body are followed by another
\* attempt while attempts remain; a 200 response with decodable JSON is
\* returned at once, GraphQL errors or not.
C37_OnlyTransientRetried ==
    (qpc = "returned") =>
        \A i \in 1..Len(sent) :
            LET o == sent[i]
            IN  /\ Transient(o) => (i < Len(sent) \/ (i = 3 /\ qret = "None"))
                /\ ~Transient(o) => i = Len(sent)
                /\ (~Transient(o) /\ ~(o.code = 200)) => qret = "None"
                /\ (~Transient(o) /\ o.code = 200) => qret = o.body

\* a retried failure followed by a status that is not retried
C37_Witness ==
    /\ qpc = "returned"
    /\ Len(sent) = 2
    /\ sent[1].code = 503
    /\ sent[2].code = 500
    /\ qret = "None"

\* the reports accumulated after the first k answers
RECURSIVE Accumulated(_, _)
Accumulated(answers, k) ==
    IF k = 0 THEN 0 ELSE Accumulated(answers, k - 1) + answers[k].nodes

\* C38: get_all_reports with max_count > 0 returns at most max_count
\* reports and issues no further page query once the accumulated count has
\* reached max_count; with any max_count it requests a next page only when
\* the previous page reported hasNextPage with a non-empty endCursor, stops
\* on a failed query or a page without edges, and returns [] instead of
\* raising.
C38_PagingBounded ==
    Returned("get_all_reports") =>
        LET a == arg.answers
            q == out.queries
            asked == 1..(IF q <= MaxPages THEN q ELSE MaxPages)
        IN  /\ arg.max_count > 0 => out.returned <= arg.max_count
            /\ arg.max_count > 0 =>
                  \A k \in asked :
                      (k < q) => Accumulated(a, k) < arg.max_count
            /\ \A k \in asked :
                  (k < q) => /\ a[k].info = "given"
                             /\ a[k].hasNextPage
                             /\ a[k].endCursor # ""
            /\ \A k \in asked :
                  (a[k].failed \/ a[k].edges = 0) => q = k
            /\ ~out.raised
            /\ (\E k \in asked : ~a[k].failed /\ a[k].edges > 0
                                    /\ a[k].info = "malformed")
                  => out.returned = 0

\* the second page brings the count to max_count although a third page
\* is announced
C38_Witness ==
    /\ Returned("get_all_reports")
    /\ arg.max_count = 3
    /\ out.queries = 2
    /\ out.returned = 3
    /\ arg.answers[2].hasNextPage
    /\ arg.answers[2].endCursor # ""

\* C40: after upload_and_link_file returns, on every outcome (upload
\* success, upload failure, HTTP or GraphQL error, exception), the
\* temporary file it created has been deleted and its path is no longer in
\* temp_files; temp_files never holds a path of a finished upload.
C40_TempFileGoneOnEveryOutcome ==
    (upc = "returned") =>
        /\ ucreated \notin udisk
        /\ \A i \in 1..Len(temp_files) : temp_files[i] # ucreated
        /\ temp_files = << >>

\* C35: the startup scan and the normal cycle apply the same eligibility
\* rule: for every report and every configuration (process_all_reports on
\* or off, with or without report types, with or without URL, labelled or
\* not, already in processed_reports or not), the startup scan calls
\* process_report on the report iff is_report_processable returns True.
C35_StartupScanSameRule ==
    Returned("_process_all_reports_on_start") =>
        (out <=> IsReportProcessable(arg.report, arg.processed,
                                     arg.process_all_reports))

\* the report with this id can be processed: not recorded in memory, no
\* processed label, a URL, and a target type unless every type is processed
Eligible(i) ==
    /\ i \notin processed_reports
    /\ i \notin labelled
    /\ platform[i] # "no_url"
    /\ process_all_reports \/ platform[i] # "other_type"

\* process_report was invoked for the report in the iteration just made
PickedUp(i) == last.id = i /\ last.invoked

\* C32: across the cycles of one ReportProcessor, process_report returns
\* True at most once per report id; processed_reports only grows; an
\* iteration of process_reports invokes process_report only for a report
\* whose id is not in processed_reports and that does not carry the
\* processed label, also for the second entry of a list holding an id twice
C32_ProcessedAtMostOnce ==
    /\ [](\A i \in ReportIds : successes[i] <= 1)
    /\ [][processed_reports \subseteq processed_reports']_vars
    /\ [][(ri' = ri + 1 /\ last'.invoked)
             => /\ reports[ri + 1].id \notin processed_reports
                /\ ~reports[ri + 1].label]_vars

\* a list with the same id twice: the first entry was processed, the second
\* is skipped although its copy carries no label
C32_Witness ==
    /\ cpc = "process"
    /\ ri = 2
    /\ reports[1].id = reports[2].id
    /\ ~reports[2].label
    /\ successes[reports[1].id] = 1
    /\ last.id = reports[2].id
    /\ ~last.invoked

FailedSteps(run) ==
    { k \in 1..Len(run) :
        run[k].op \in {"update", "convert", "upload", "label"} /\ ~run[k].ok }

\* the step that follows a failed step
AfterFailed(op) ==
    CASE op = "update" -> "convert"
      [] op = "convert" -> "label"
      [] op = "upload" -> "label"
      [] op = "label" -> "mark"

\* C33: when extraction yields no usable text, process_report makes no
\* description update, conversion or upload, still attempts the label,
\* records the id and returns True; after a failed update, conversion,
\* upload or label addition the call goes on with its next step, and
\* unless an exception is raised the id is recorded and True is returned
C33_FailuresStillRecorded ==
    last.invoked =>
        /\ Has(last.steps, Step("extract", FALSE)) =>
              /\ \A k \in 1..Len(last.steps) :
                    last.steps[k].op \notin {"update", "convert", "upload"}
              /\ \E k \in 1..Len(last.steps) : last.steps[k].op = "label"
              /\ last.id \in processed_reports
              /\ last.ret = "True"
        /\ \A k \in FailedSteps(last.steps) :
              /\ k < Len(last.steps)
              /\ last.steps[k + 1].op = AfterFailed(last.steps[k].op)
        /\ (FailedSteps(last.steps) # {} /\ ~Has(last.steps, Raise)) =>
              /\ last.id \in processed_reports
              /\ last.ret = "True"

\* no usable text, and the label addition failed as well
C33_Witness ==
    /\ last.invoked
    /\ last.steps = <<Step("extract", FALSE), Step("label", FALSE),
                      Step("mark", TRUE)>>
    /\ last.ret = "True"
    /\ last.id \in processed_reports
    /\ last.id \notin labelled

StepOrder == <<"extract", "update", "convert", "upload", "label", "mark">>

OrderIndex(op) == CHOOSE k \in 1..Len(StepOrder) : StepOrder[k] = op

\* C34: the steps of process_report come in the order extraction,
\* description update, conversion, upload, label, in-memory marking; the
\* upload follows a conversion that returned bytes; the label step comes
\* after every description and PDF step; a call aborted by an exception
\* before the label step leaves the report unlabelled, unrecorded and
\* eligible
C34_StepsOrdered ==
    last.invoked =>
        LET steps == last.steps
            made == { k \in 1..Len(steps) : steps[k] # Raise }
        IN  /\ steps[1].op = "extract"
            /\ \A j \in made, k \in made :
                  j < k => OrderIndex(steps[j].op) < OrderIndex(steps[k].op)
            /\ \A k \in made :
                  steps[k].op = "upload" =>
                      k > 1 /\ steps[k - 1] = Step("convert", TRUE)
            /\ \A k \in made :
                  steps[k].op = "mark" =>
                      k > 1 /\ steps[k - 1].op = "label"
            /\ (Has(steps, Raise) /\ \A k \in made : steps[k].op # "label") =>
                  /\ last.ret = "False"
                  /\ last.id \notin labelled
                  /\ last.id \notin processed_reports
                  /\ Eligible(last.id)

\* the call was aborted after the conversion, before the upload
C34_Witness ==
    /\ last.invoked
    /\ Has(last.steps, Raise)
    /\ Has(last.steps, Step("convert", TRUE))
    /\ last.ret = "False"
    /\ Eligible(last.id)

=============================================================================
